---- MODULE Spec2Model ----
(***************************************************************************)
(* devfreq core (drivers/devfreq/devfreq.c): one managed device `df`, the  *)
(* governor registry, and the handlers that act on them.                    *)
(*                                                                          *)
(* Every handler is one action.  A handler takes the locks it needs on      *)
(* entry and drops them on exit, so the actions of the specifications       *)
(* below run each handler to completion.  Besides the program state, the    *)
(* model records what the last handler did: its call, the device before     *)
(* it, its return value and the external callbacks it made, in order.       *)
(***************************************************************************)
EXTENDS Integers, Sequences, FiniteSets, TLC

VARIABLES
    devfreq_governor_list, \* registered governors (devfreq_governor_list)
    df,                    \* the struct devfreq of the managed device
    jiffies,               \* the kernel's tick counter
    call,                  \* the last handler run and its argument
    pre,                   \* df as the last handler found it
    ret,                   \* what the last handler returned
    trace,                 \* the callbacks the last handler made, in order
    mutex,                 \* who holds each lock
    work,                  \* the device's delayed work item (devfreq->work)
    polling_ms,            \* profile->polling_ms
    task,                  \* where each thread of control stands
    notes,                 \* the last notifications the transition observers got
    heap                   \* devfreq_list and what teardown has done so far

\* What the threads of control share besides the device.
kern == <<mutex, work, polling_ms, task, notes, heap>>

vars == <<devfreq_governor_list, df, jiffies, call, pre, ret, trace, kern>>

----------------------------------------------------------------------------
(* Bounds of the model. *)

MaxFreq == 3        \* governor targets and written bounds range over 0..MaxFreq
MaxJiffies == 2     \* the clock stops ticking here
MaxTrans == 2       \* no update starts once total_trans has reached this
WordBits == 4       \* width of unsigned long in the model

ULONG_MAX == 2^WordBits - 1
Word(n) == n % (ULONG_MAX + 1)

----------------------------------------------------------------------------
(* Return values. *)

OK == "0"
COUNT == "count"        \* a store handler's success: the bytes consumed
EINVAL == "-EINVAL"
ENODEV == "-ENODEV"
ENOMEM == "-ENOMEM"
EEXIST == "-EEXIST"

DEVFREQ_FLAG_LEAST_UPPER_BOUND == "LEAST_UPPER_BOUND"
DEVFREQ_PRECHANGE == "PRECHANGE"
DEVFREQ_POSTCHANGE == "POSTCHANGE"
DEVFREQ_GOV_START == "START"
DEVFREQ_GOV_STOP == "STOP"

\* What a governor's event_handler, its get_target_freq and the driver's
\* target callback may return.
EventRets == {OK, "-EBUSY", "-EAGAIN"}
TargetFreqRets == {OK, "-EAGAIN"}
DriverRets == {OK, "-EIO"}

FreqInputs == 0..MaxFreq

----------------------------------------------------------------------------
(* Governors.  A governor object is its name and its immutable flag; NULL   *)
(* is the absent governor.                                                  *)

NULL == [name |-> "(null)", immutable |-> FALSE]

Governors ==
    { [name |-> "performance", immutable |-> FALSE],
      [name |-> "powersave",   immutable |-> FALSE],
      [name |-> "cpufreq",     immutable |-> TRUE],
      [name |-> "userspace",   immutable |-> FALSE] }

\* governor_store's allow-list.
GovernorWhiteList ==
    {"simple_ondemand", "cpufreq", "performance", "powersave", "msm-adreno-tz"}

\* What a writer may write to the governor attribute: the names above,
\* a name nobody registers, and the empty string (sscanf reads nothing).
GovernorBufs == {g.name : g \in Governors} \cup {"zzz", ""}

\* find_devfreq_governor returning the list cursor when nothing matches.
find_devfreq_governor_cursor(list, name) ==
    IF \E g \in list : g.name = name
    THEN [err |-> OK, governor |-> CHOOSE g \in list : g.name = name]
    ELSE IF list # {}
    THEN [err |-> OK, governor |-> CHOOSE g \in list : TRUE]
    ELSE [err |-> ENODEV, governor |-> NULL]

\* find_devfreq_governor: the registered governor of that name, or an error.
find_devfreq_governor(list, name) ==
    IF \E g \in list : g.name = name
    THEN [err |-> OK, governor |-> CHOOSE g \in list : g.name = name]
    ELSE [err |-> ENODEV, governor |-> NULL]

----------------------------------------------------------------------------
(* Frequency table and bounds. *)

\* dev_pm_opp_find_freq_ceil over the operating points `opps`: the lowest
\* operating point at or above freq.
dev_pm_opp_find_freq_ceil(opps, freq) ==
    IF \E f \in opps : f >= freq
    THEN [err |-> OK,
          freq |-> CHOOSE f \in opps : f >= freq /\ \A h \in opps : h >= freq => f <= h]
    ELSE [err |-> "-ERANGE", freq |-> freq]

\* The loop of devfreq_set_freq_table from index i with cursor freq: the
\* table filled so far, or a lookup failure.
RECURSIVE opp_fill(_, _, _, _, _)
opp_fill(opps, count, i, freq, tab) ==
    IF i >= count THEN [err |-> OK, tab |-> tab]
    ELSE LET r == dev_pm_opp_find_freq_ceil(opps, freq)
         IN  IF r.err # OK THEN [err |-> r.err, tab |-> <<>>]
             ELSE opp_fill(opps, count, i + 1, Word(r.freq + 1), Append(tab, r.freq))

\* devfreq_set_freq_table: the profile's (freq_table, max_state) after it.
\* freq_table is "NULL", "valid" or "freed" (the pointer the failure path
\* hands to devm_kfree and leaves in the profile).
devfreq_set_freq_table(opps, count, alloc_ok) ==
    IF count <= 0 THEN [freq_table |-> "NULL", table |-> <<>>, max_state |-> 0]
    ELSE IF ~alloc_ok THEN [freq_table |-> "NULL", table |-> <<>>, max_state |-> 0]
    ELSE LET r == opp_fill(opps, count, 0, 0, <<>>)
         IN  IF r.err # OK
             THEN [freq_table |-> "freed", table |-> <<>>, max_state |-> 0]
             ELSE [freq_table |-> "valid", table |-> r.tab, max_state |-> count]

\* The loop of devfreq_set_freq_limits from index idx (1-based here).
RECURSIVE freq_limits_loop(_, _, _, _, _)
freq_limits_loop(table, max_state, idx, min, max) ==
    IF idx > max_state THEN [min |-> min, max |-> max]
    ELSE freq_limits_loop(table, max_state, idx + 1,
                          IF min > table[idx] THEN table[idx] ELSE min,
                          IF max < table[idx] THEN table[idx] ELSE max)

\* devfreq_set_freq_limits: (min_freq, max_freq) after it.
devfreq_set_freq_limits(d) ==
    IF d.freq_table = "NULL" THEN [min |-> d.min_freq, max |-> d.max_freq]
    ELSE freq_limits_loop(d.table, d.max_state, 1, ULONG_MAX, 0)

\* devfreq_get_freq_level: the level of freq (0-based), or -1 for -EINVAL.
devfreq_get_freq_level(d, freq) ==
    IF \E lev \in 1..d.max_state : d.table[lev] = freq
    THEN (CHOOSE lev \in 1..d.max_state :
              d.table[lev] = freq /\ \A l \in 1..d.max_state : d.table[l] = freq => lev <= l) - 1
    ELSE -1

----------------------------------------------------------------------------
(* Transition statistics. *)

\* devfreq_update_status counting a transition when the level stays.
devfreq_update_status_counts_same(d, freq, cur_time) ==
    LET prev_lev == devfreq_get_freq_level(d, d.previous_freq)
        lev == devfreq_get_freq_level(d, freq)
        timed == [d EXCEPT !.time_in_state[prev_lev] =
                      Word(@ + Word(cur_time - d.last_stat_updated + ULONG_MAX + 1))]
        counted == [timed EXCEPT !.trans_table[prev_lev * d.max_state + lev] = @ + 1,
                                 !.total_trans = @ + 1]
        out(r, e) == [ret |-> r, df |-> [e EXCEPT !.last_stat_updated = cur_time]]
    IN  IF d.previous_freq = 0 THEN out(OK, d)
        ELSE IF prev_lev < 0 THEN out(EINVAL, d)
        ELSE IF lev < 0 THEN out(EINVAL, timed)
        ELSE out(OK, counted)

\* devfreq_update_status booking the time of an unknown previous_freq to
\* level 0.
devfreq_update_status_books_unknown(d, freq, cur_time) ==
    LET prev_lev == devfreq_get_freq_level(d, d.previous_freq)
        lev == devfreq_get_freq_level(d, freq)
        at(l) == [d EXCEPT !.time_in_state[l] =
                      Word(@ + Word(cur_time - d.last_stat_updated + ULONG_MAX + 1))]
        timed == at(prev_lev)
        counted == [timed EXCEPT !.trans_table[prev_lev * d.max_state + lev] = @ + 1,
                                 !.total_trans = @ + 1]
        out(r, e) == [ret |-> r, df |-> [e EXCEPT !.last_stat_updated = cur_time]]
    IN  IF d.previous_freq = 0 THEN out(OK, d)
        ELSE IF prev_lev < 0 THEN out(EINVAL, IF d.max_state > 0 THEN at(0) ELSE d)
        ELSE IF lev < 0 THEN out(EINVAL, timed)
        ELSE IF lev # prev_lev THEN out(OK, counted)
        ELSE out(OK, timed)

\* devfreq_update_status leaving last_stat_updated alone when it fails.
devfreq_update_status_unstamped(d, freq, cur_time) ==
    LET prev_lev == devfreq_get_freq_level(d, d.previous_freq)
        lev == devfreq_get_freq_level(d, freq)
        timed == [d EXCEPT !.time_in_state[prev_lev] =
                      Word(@ + Word(cur_time - d.last_stat_updated + ULONG_MAX + 1))]
        counted == [timed EXCEPT !.trans_table[prev_lev * d.max_state + lev] = @ + 1,
                                 !.total_trans = @ + 1]
        out(r, e) == [ret |-> r, df |-> [e EXCEPT !.last_stat_updated = cur_time]]
    IN  IF d.previous_freq = 0 THEN out(OK, d)
        ELSE IF prev_lev < 0 THEN [ret |-> EINVAL, df |-> d]
        ELSE IF lev < 0 THEN [ret |-> EINVAL, df |-> timed]
        ELSE IF lev # prev_lev THEN out(OK, counted)
        ELSE out(OK, timed)

\* devfreq_update_status at time cur_time: its return value and the device
\* after it.
devfreq_update_status(d, freq, cur_time) ==
    LET prev_lev == devfreq_get_freq_level(d, d.previous_freq)
        lev == devfreq_get_freq_level(d, freq)
        timed == [d EXCEPT !.time_in_state[prev_lev] =
                      Word(@ + Word(cur_time - d.last_stat_updated + ULONG_MAX + 1))]
        counted == [timed EXCEPT !.trans_table[prev_lev * d.max_state + lev] = @ + 1,
                                 !.total_trans = @ + 1]
        out(r, e) == [ret |-> r, df |-> [e EXCEPT !.last_stat_updated = cur_time]]
    IN  IF d.previous_freq = 0 THEN out(OK, d)
        ELSE IF prev_lev < 0 THEN out(EINVAL, d)
        ELSE IF lev < 0 THEN out(EINVAL, timed)
        ELSE IF lev # prev_lev THEN out(OK, counted)
        ELSE out(OK, timed)

----------------------------------------------------------------------------
(* update_devfreq. *)

\* clamp_to_limits with the max clamp leaving the rounding flags alone.
clamp_to_limits_flag_kept(min_freq, max_freq, freq0) ==
    LET c1 == IF min_freq # 0 /\ freq0 < min_freq
              THEN [freq |-> min_freq, flags |-> {}]
              ELSE [freq |-> freq0, flags |-> {}]
    IN  IF max_freq # 0 /\ c1.freq > max_freq
        THEN [freq |-> max_freq, flags |-> c1.flags]
        ELSE c1

\* Lines 286-293: the target adjusted to the user's limits, and the rounding
\* flags handed to the driver.
clamp_to_limits(min_freq, max_freq, freq0) ==
    LET c1 == IF min_freq # 0 /\ freq0 < min_freq
              THEN [freq |-> min_freq, flags |-> {} \ {DEVFREQ_FLAG_LEAST_UPPER_BOUND}]
              ELSE [freq |-> freq0, flags |-> {}]
    IN  IF max_freq # 0 /\ c1.freq > max_freq
        THEN [freq |-> max_freq,
              flags |-> c1.flags \cup {DEVFREQ_FLAG_LEAST_UPPER_BOUND}]
        ELSE c1

\* Lines 295-298: the frequency reported as the old one.  A get_cur_freq
\* callback's return value is not looked at, so what it reports (or what
\* the uninitialised local holds when it reports nothing) is the input.
read_cur_freq(d, in) ==
    IF d.get_cur_freq THEN in.cur_freq ELSE d.previous_freq

\* apply_target delivering no POSTCHANGE after a failed target.
apply_target_failure_unannounced(d, c, cur_freq, in, now) ==
    LET pre_n == [cb |-> "notify", state |-> DEVFREQ_PRECHANGE,
                  old |-> cur_freq, new |-> c.freq]
        tgt == [cb |-> "target", freq |-> c.freq, flags |-> c.flags,
                ret |-> in.drv_ret, out |-> in.drv_freq]
        post(n) == [cb |-> "notify", state |-> DEVFREQ_POSTCHANGE,
                    old |-> cur_freq, new |-> n]
        st == devfreq_update_status(d, in.drv_freq, now)
    IN  IF in.drv_ret # OK
        THEN [ret |-> in.drv_ret, df |-> d, trace |-> <<pre_n, tgt>>]
        ELSE IF d.freq_table # "NULL"
        THEN [ret |-> OK,
              df |-> [st.df EXCEPT !.previous_freq = in.drv_freq],
              trace |-> <<pre_n, tgt, post(in.drv_freq),
                          [cb |-> "devfreq_update_status", ret |-> st.ret]>>]
        ELSE [ret |-> OK,
              df |-> [d EXCEPT !.previous_freq = in.drv_freq],
              trace |-> <<pre_n, tgt, post(in.drv_freq)>>]

\* apply_target announcing the requested frequency after a failed target.
apply_target_no_rollback_signal(d, c, cur_freq, in, now) ==
    LET pre_n == [cb |-> "notify", state |-> DEVFREQ_PRECHANGE,
                  old |-> cur_freq, new |-> c.freq]
        tgt == [cb |-> "target", freq |-> c.freq, flags |-> c.flags,
                ret |-> in.drv_ret, out |-> in.drv_freq]
        post(n) == [cb |-> "notify", state |-> DEVFREQ_POSTCHANGE,
                    old |-> cur_freq, new |-> n]
        st == devfreq_update_status(d, in.drv_freq, now)
    IN  IF in.drv_ret # OK
        THEN [ret |-> in.drv_ret, df |-> d,
              trace |-> <<pre_n, tgt, post(c.freq)>>]
        ELSE IF d.freq_table # "NULL"
        THEN [ret |-> OK,
              df |-> [st.df EXCEPT !.previous_freq = in.drv_freq],
              trace |-> <<pre_n, tgt, post(in.drv_freq),
                          [cb |-> "devfreq_update_status", ret |-> st.ret]>>]
        ELSE [ret |-> OK,
              df |-> [d EXCEPT !.previous_freq = in.drv_freq],
              trace |-> <<pre_n, tgt, post(in.drv_freq)>>]

\* apply_target returning what the statistics update returned.
apply_target_stat_error_returned(d, c, cur_freq, in, now) ==
    LET pre_n == [cb |-> "notify", state |-> DEVFREQ_PRECHANGE,
                  old |-> cur_freq, new |-> c.freq]
        tgt == [cb |-> "target", freq |-> c.freq, flags |-> c.flags,
                ret |-> in.drv_ret, out |-> in.drv_freq]
        post(n) == [cb |-> "notify", state |-> DEVFREQ_POSTCHANGE,
                    old |-> cur_freq, new |-> n]
        st == devfreq_update_status(d, in.drv_freq, now)
    IN  IF in.drv_ret # OK
        THEN [ret |-> in.drv_ret, df |-> d,
              trace |-> <<pre_n, tgt, post(cur_freq)>>]
        ELSE IF d.freq_table # "NULL"
        THEN [ret |-> st.ret,
              df |-> [st.df EXCEPT !.previous_freq = in.drv_freq],
              trace |-> <<pre_n, tgt, post(in.drv_freq),
                          [cb |-> "devfreq_update_status", ret |-> st.ret]>>]
        ELSE [ret |-> OK,
              df |-> [d EXCEPT !.previous_freq = in.drv_freq],
              trace |-> <<pre_n, tgt, post(in.drv_freq)>>]

\* Lines 304-320: the driver's target callback and what follows it.
apply_target(d, c, cur_freq, in, now) ==
    LET pre_n == [cb |-> "notify", state |-> DEVFREQ_PRECHANGE,
                  old |-> cur_freq, new |-> c.freq]
        tgt == [cb |-> "target", freq |-> c.freq, flags |-> c.flags,
                ret |-> in.drv_ret, out |-> in.drv_freq]
        post(n) == [cb |-> "notify", state |-> DEVFREQ_POSTCHANGE,
                    old |-> cur_freq, new |-> n]
        st == devfreq_update_status(d, in.drv_freq, now)
    IN  IF in.drv_ret # OK
        THEN [ret |-> in.drv_ret, df |-> d,
              trace |-> <<pre_n, tgt, post(cur_freq)>>]
        ELSE IF d.freq_table # "NULL"
        THEN [ret |-> OK,
              df |-> [st.df EXCEPT !.previous_freq = in.drv_freq],
              trace |-> <<pre_n, tgt, post(in.drv_freq),
                          [cb |-> "devfreq_update_status", ret |-> st.ret]>>]
        ELSE [ret |-> OK,
              df |-> [d EXCEPT !.previous_freq = in.drv_freq],
              trace |-> <<pre_n, tgt, post(in.drv_freq)>>]

\* update_devfreq asking the governor even when max_boost is set.
update_devfreq_boost_ignored(d, in, now) ==
    IF d.governor = NULL THEN [ret |-> EINVAL, df |-> d, trace |-> <<>>]
    ELSE IF in.gov_ret # OK
    THEN [ret |-> in.gov_ret, df |-> d,
          trace |-> <<[cb |-> "get_target_freq", ret |-> in.gov_ret, freq |-> 0]>>]
    ELSE LET freq0 == in.gov_freq
             asked == <<[cb |-> "get_target_freq", ret |-> OK, freq |-> freq0]>>
             c == clamp_to_limits(d.min_freq, d.max_freq, freq0)
             r == apply_target(d, c, read_cur_freq(d, in), in, now)
         IN  [r EXCEPT !.trace = asked \o @]

\* update_devfreq with the device lock held, at time `now`, where `in` is
\* what the governor, the get_cur_freq callback and the driver answer.
update_devfreq(d, in, now) ==
    IF d.governor = NULL THEN [ret |-> EINVAL, df |-> d, trace |-> <<>>]
    ELSE IF ~d.max_boost /\ in.gov_ret # OK
    THEN [ret |-> in.gov_ret, df |-> d,
          trace |-> <<[cb |-> "get_target_freq", ret |-> in.gov_ret, freq |-> 0]>>]
    ELSE LET freq0 == IF d.max_boost THEN ULONG_MAX ELSE in.gov_freq
             asked == IF d.max_boost THEN <<>>
                      ELSE <<[cb |-> "get_target_freq", ret |-> OK, freq |-> freq0]>>
             c == clamp_to_limits(d.min_freq, d.max_freq, freq0)
             r == apply_target(d, c, read_cur_freq(d, in), in, now)
         IN  [r EXCEPT !.trace = asked \o @]

\* The driver settles on the frequency asked for or on one of these.
DriverFreqs == {1, MaxFreq}

\* The answers update_devfreq can meet on device d: a governor target or its
\* error, a current frequency, and the driver's verdict.  An answer nobody
\* asks for is left at a fixed value.
UpdateInputs(d) ==
    LET govs == IF d.governor = NULL \/ d.max_boost THEN {[ret |-> OK, freq |-> 0]}
                ELSE {[ret |-> r, freq |-> 0] : r \in TargetFreqRets \ {OK}}
                     \cup {[ret |-> OK, freq |-> f] : f \in FreqInputs}
        curs(g) == IF d.governor = NULL \/ g.ret # OK \/ ~d.get_cur_freq THEN {0}
                   ELSE {0, MaxFreq}
        asked(g) == clamp_to_limits(d.min_freq, d.max_freq,
                                    IF d.max_boost THEN ULONG_MAX ELSE g.freq).freq
        drvs(g) == IF d.governor = NULL \/ g.ret # OK THEN {[ret |-> OK, freq |-> 0]}
                   ELSE {[ret |-> r, freq |-> asked(g)] : r \in DriverRets \ {OK}}
                        \cup {[ret |-> OK, freq |-> f] : f \in {asked(g)} \cup DriverFreqs}
    IN  UNION { { [gov_ret |-> g.ret, gov_freq |-> g.freq, cur_freq |-> cf,
                    drv_ret |-> dr.ret, drv_freq |-> dr.freq]
                  : cf \in curs(g), dr \in drvs(g) } : g \in govs }

----------------------------------------------------------------------------
(* The delayed work item and the monitor helpers' effect on the device.     *)

\* queue_delayed_work: arms the item to run after the delay, unless
\* PENDING is set already; then the item stays due when it was.
queue_delayed_work(w, delay) ==
    IF w.pending THEN w
    ELSE [w EXCEPT !.pending = TRUE, !.armed = @ + 1, !.delay = delay]

\* cancel_delayed_work_sync, first half: take PENDING, dequeue.  Whoever
\* queues from now on finds PENDING set.
cancel_grab(w) ==
    [w EXCEPT !.pending = TRUE, !.canceling = TRUE,
              !.armed = IF @ > 0 THEN @ - 1 ELSE 0,
              !.delay = IF w.armed > 1 THEN @ ELSE 0]

\* cancel_delayed_work_sync, second half, once no instance is running.
cancel_done(w) == [w EXCEPT !.pending = FALSE, !.canceling = FALSE]

\* Lines 392-398 of devfreq_monitor_suspend, under the device lock: flush
\* the statistics and mark the device suspended.  `go` tells whether the
\* work is cancelled next.
suspend_status(d, now) ==
    IF d.stop_polling THEN [go |-> FALSE, df |-> d, trace |-> <<>>]
    ELSE LET st == devfreq_update_status(d, d.previous_freq, now)
         IN  [go |-> TRUE, df |-> [st.df EXCEPT !.stop_polling = TRUE],
              trace |-> <<[cb |-> "devfreq_update_status", ret |-> st.ret]>>]

\* What get_cur_freq can answer devfreq_monitor_resume.
CurFreqAnswers(d) ==
    IF d.get_cur_freq
    THEN {[ret |-> "-EIO", freq |-> 0]} \cup {[ret |-> OK, freq |-> f] : f \in {1, MaxFreq}}
    ELSE {[ret |-> OK, freq |-> 0]}

\* devfreq_monitor_resume that never tests stop_polling.
resume_status_always(d, w, ms, now, cur) ==
    [df |-> [d EXCEPT !.last_stat_updated = now,
                      !.stop_polling = FALSE,
                      !.previous_freq =
                          IF d.get_cur_freq /\ cur.ret = OK THEN cur.freq ELSE @],
     work |-> IF ~w.pending /\ ms # 0
              THEN [queue_delayed_work(w, ms) EXCEPT !.stopped = FALSE]
              ELSE w,
     trace |-> IF d.get_cur_freq
               THEN <<[cb |-> "get_cur_freq", ret |-> cur.ret, freq |-> cur.freq]>>
               ELSE <<>>]

\* Lines 417-430 of devfreq_monitor_resume, under the device lock.
resume_status(d, w, ms, now, cur) ==
    IF ~d.stop_polling THEN [df |-> d, work |-> w, trace |-> <<>>]
    ELSE [df |-> [d EXCEPT !.last_stat_updated = now,
                           !.stop_polling = FALSE,
                           !.previous_freq =
                               IF d.get_cur_freq /\ cur.ret = OK THEN cur.freq ELSE @],
          work |-> IF ~w.pending /\ ms # 0
                   THEN [queue_delayed_work(w, ms) EXCEPT !.stopped = FALSE]
                   ELSE w,
          trace |-> IF d.get_cur_freq
                    THEN <<[cb |-> "get_cur_freq", ret |-> cur.ret, freq |-> cur.freq]>>
                    ELSE <<>>]

\* devfreq_monitor_suspend with no poll in flight.
devfreq_monitor_suspend(d, w, now) ==
    LET s == suspend_status(d, now)
    IN  [ret |-> OK, df |-> s.df, trace |-> s.trace,
         work |-> IF s.go THEN cancel_done(cancel_grab(w)) ELSE w]

\* devfreq_monitor_resume.
devfreq_monitor_resume(d, w, ms, now, cur) ==
    LET r == resume_status(d, w, ms, now, cur)
    IN  [ret |-> OK, df |-> r.df, trace |-> r.trace, work |-> r.work]

\* trans_stat_show: a read of the trans_stat attribute.
trans_stat_show(d, now) ==
    IF d.max_state = 0 THEN [ret |-> "Not Supported.", df |-> d, trace |-> <<>>]
    ELSE IF d.stop_polling THEN [ret |-> "len", df |-> d, trace |-> <<>>]
    ELSE LET st == devfreq_update_status(d, d.previous_freq, now)
         IN  [ret |-> IF st.ret # OK THEN OK ELSE "len", df |-> st.df,
              trace |-> <<[cb |-> "devfreq_update_status", ret |-> st.ret]>>]

----------------------------------------------------------------------------
(* Registration. *)

\* What drivers hand to devfreq_add_device: a profile (its own table or
\* none, the first frequency, whether it can report the current frequency)
\* and the operating points the OPP library answers with when the table is
\* derived (opp_count is what dev_pm_opp_get_opp_count reports; the points
\* can shrink between that call and the lookups).
Profiles ==
    { [freq_table |-> <<1, MaxFreq>>, initial_freq |-> 1, get_cur_freq |-> FALSE,
       opps |-> {}, opp_count |-> 0, alloc_ok |-> TRUE],
      [freq_table |-> <<MaxFreq, 1>>, initial_freq |-> 0, get_cur_freq |-> TRUE,
       opps |-> {}, opp_count |-> 0, alloc_ok |-> TRUE],
      [freq_table |-> <<>>, initial_freq |-> 1, get_cur_freq |-> FALSE,
       opps |-> {1, MaxFreq}, opp_count |-> 2, alloc_ok |-> TRUE],
      [freq_table |-> <<>>, initial_freq |-> 1, get_cur_freq |-> FALSE,
       opps |-> {1, MaxFreq}, opp_count |-> 3, alloc_ok |-> TRUE],
      [freq_table |-> <<>>, initial_freq |-> 1, get_cur_freq |-> FALSE,
       opps |-> {1, MaxFreq}, opp_count |-> 2, alloc_ok |-> FALSE],
      [freq_table |-> <<>>, initial_freq |-> 1, get_cur_freq |-> FALSE,
       opps |-> {}, opp_count |-> 0, alloc_ok |-> TRUE] }

\* devfreq_add_device up to the point where the device is put on the list
\* (lines 572-619): the zeroed struct, the table, the limits, the statistics.
devfreq_alloc(profile, governor_name, now) ==
    LET given == profile.freq_table # <<>>
        tab == IF given
               THEN [freq_table |-> "valid", table |-> profile.freq_table,
                     max_state |-> Len(profile.freq_table)]
               ELSE devfreq_set_freq_table(profile.opps, profile.opp_count,
                                           profile.alloc_ok)
        d0 == [governor |-> NULL,
               governor_name |-> governor_name,
               previous_freq |-> profile.initial_freq,
               get_cur_freq |-> profile.get_cur_freq,
               freq_table |-> tab.freq_table,
               table |-> tab.table,
               max_state |-> tab.max_state,
               min_freq |-> 0,
               max_freq |-> 0,
               max_boost |-> FALSE,
               is_boost_device |-> FALSE,
               stop_polling |-> FALSE,
               total_trans |-> 0,
               trans_table |-> [i \in 0..(tab.max_state * tab.max_state - 1) |-> 0],
               time_in_state |-> [i \in 0..(tab.max_state - 1) |-> 0],
               last_stat_updated |-> now]
        lim == devfreq_set_freq_limits(d0)
    IN  [d0 EXCEPT !.min_freq = lim.min, !.max_freq = lim.max]

\* devfreq_add_device from there (lines 621-654): look the governor up and
\* start it.  `added` tells whether the device stays on the list.
devfreq_add_device(list, profile, governor_name, now, start_ret) ==
    LET d == devfreq_alloc(profile, governor_name, now)
        g == find_devfreq_governor(list, governor_name)
        ev == [cb |-> "event", gov |-> governor_name, event |-> DEVFREQ_GOV_START,
               ret |-> start_ret]
    IN  IF g.err # OK THEN [added |-> FALSE, ret |-> g.err, df |-> d, trace |-> <<>>]
        ELSE [added |-> start_ret = OK, ret |-> start_ret,
              df |-> [d EXCEPT !.governor = g.governor], trace |-> <<ev>>]

----------------------------------------------------------------------------
(* The update and limit handlers. *)

\* A write to a numeric attribute: what sscanf("%lu") makes of the buffer.
NumberBufs == {[parsed |-> TRUE, value |-> v] : v \in FreqInputs}
              \cup {[parsed |-> FALSE, value |-> 0]}

\* devfreq_notifier_call: update_devfreq under the device lock.
devfreq_notifier_call(d, in, now) == update_devfreq(d, in, now)

\* min_above_max comparing the wrong way round.
min_above_max_inverted(value, max) == value # 0 /\ max # 0 /\ value < max

\* Line 1146: the new min_freq would lie above a set max_freq.
min_above_max(value, max) == value # 0 /\ max # 0 /\ value > max

\* Line 1175: the new max_freq would lie below a set min_freq.
max_below_min(value, min) == value # 0 /\ min # 0 /\ value < min

min_freq_store(d, buf, in, now) ==
    IF d.is_boost_device THEN [ret |-> COUNT, df |-> d, trace |-> <<>>]
    ELSE IF ~buf.parsed THEN [ret |-> EINVAL, df |-> d, trace |-> <<>>]
    ELSE IF min_above_max(buf.value, d.max_freq)
    THEN [ret |-> EINVAL, df |-> d, trace |-> <<>>]
    ELSE LET u == update_devfreq([d EXCEPT !.min_freq = buf.value], in, now)
         IN  [ret |-> COUNT, df |-> u.df,
              trace |-> Append(u.trace, [cb |-> "update_devfreq", ret |-> u.ret])]

max_freq_store(d, buf, in, now) ==
    IF ~buf.parsed THEN [ret |-> EINVAL, df |-> d, trace |-> <<>>]
    ELSE IF max_below_min(buf.value, d.min_freq)
    THEN [ret |-> EINVAL, df |-> d, trace |-> <<>>]
    ELSE LET u == update_devfreq([d EXCEPT !.max_freq = buf.value], in, now)
         IN  [ret |-> COUNT, df |-> u.df,
              trace |-> Append(u.trace, [cb |-> "update_devfreq", ret |-> u.ret])]

----------------------------------------------------------------------------
(* Governor handlers.  `rets` is what the governors' event handlers answer,  *)
(* in the order the handler may ask: stop, start, restart.                  *)

Event(g, event, r) == [cb |-> "event", gov |-> g.name, event |-> event, ret |-> r]

\* same_governor that never holds.
same_governor_never(d, governor) == FALSE

\* Line 988: the governor asked for is the one attached.
same_governor(d, governor) == d.governor = governor

\* immutable_conflict looking at the attached governor only.
immutable_conflict_current_only(d, governor) ==
    d.governor # NULL /\ d.governor.immutable

\* Lines 991-992: the attached or the incoming governor is immutable.
immutable_conflict(d, governor) ==
    (d.governor # NULL /\ d.governor.immutable) \/ governor.immutable

\* stop_failed that lets the switch go on.
stop_failed_ignored(prev_gov, stop_ret) == FALSE

\* Lines 998-1005: the attached governor was asked to stop and refused.
stop_failed(prev_gov, stop_ret) == prev_gov # NULL /\ stop_ret # OK

\* start_failure that returns what the restart returned.
start_failure_returns_restart(d, prev_gov, governor, rets) ==
    IF prev_gov # NULL
    THEN [ret |-> IF rets.restart = OK THEN COUNT ELSE rets.restart,
          df |-> [d EXCEPT !.governor = prev_gov, !.governor_name = prev_gov.name],
          trace |-> <<Event(prev_gov, DEVFREQ_GOV_START, rets.restart)>>]
    ELSE [ret |-> rets.start,
          df |-> [d EXCEPT !.governor = governor, !.governor_name = governor.name],
          trace |-> <<>>]

\* Lines 1010-1020: the incoming governor did not start.  With a previous
\* governor, it is put back and started again, its answer dropped.
start_failure(d, prev_gov, governor, rets) ==
    IF prev_gov # NULL
    THEN [ret |-> rets.start,
          df |-> [d EXCEPT !.governor = prev_gov, !.governor_name = prev_gov.name],
          trace |-> <<Event(prev_gov, DEVFREQ_GOV_START, rets.restart)>>]
    ELSE [ret |-> rets.start,
          df |-> [d EXCEPT !.governor = governor, !.governor_name = governor.name],
          trace |-> <<>>]

\* governor_store from the lookup on (lines 982-1029), str_governor being
\* on the allow-list.
governor_switch(list, d, str_governor, rets) ==
    LET found == find_devfreq_governor(list, str_governor)
        governor == found.governor
        prev_gov == d.governor
        stop == IF prev_gov # NULL
                THEN <<Event(prev_gov, DEVFREQ_GOV_STOP, rets.stop)>> ELSE <<>>
        start == <<Event(governor, DEVFREQ_GOV_START, rets.start)>>
        attached == [d EXCEPT !.governor = governor, !.governor_name = governor.name]
        failed == start_failure(d, prev_gov, governor, rets)
    IN  IF found.err # OK THEN [ret |-> found.err, df |-> d, trace |-> <<>>]
        ELSE IF same_governor(d, governor) THEN [ret |-> COUNT, df |-> d, trace |-> <<>>]
        ELSE IF immutable_conflict(d, governor)
        THEN [ret |-> EINVAL, df |-> d, trace |-> <<>>]
        ELSE IF stop_failed(prev_gov, rets.stop)
        THEN [ret |-> rets.stop, df |-> d, trace |-> stop]
        ELSE IF rets.start = OK
        THEN [ret |-> COUNT, df |-> attached, trace |-> stop \o start]
        ELSE [failed EXCEPT !.trace = stop \o start \o @]

\* governor_store: a write of buf to the governor attribute.
governor_store(list, d, buf, rets) ==
    IF buf = "" THEN [ret |-> EINVAL, df |-> d, trace |-> <<>>]
    ELSE IF buf \notin GovernorWhiteList THEN [ret |-> EINVAL, df |-> d, trace |-> <<>>]
    ELSE governor_switch(list, d, buf, rets)

\* devfreq_add_governor, for the one device on devfreq_list.
devfreq_add_governor(list, d, governor, rets) ==
    LET stop == IF d.governor # NULL
                THEN <<Event(d.governor, DEVFREQ_GOV_STOP, rets.stop)>> ELSE <<>>
        start == <<Event(governor, DEVFREQ_GOV_START, rets.start)>>
    IN  IF find_devfreq_governor(list, governor.name).err = OK
        THEN [ret |-> EINVAL, list |-> list, df |-> d, trace |-> <<>>]
        ELSE IF d.governor_name = governor.name
        THEN [ret |-> OK, list |-> list \cup {governor},
              df |-> [d EXCEPT !.governor = governor], trace |-> stop \o start]
        ELSE [ret |-> OK, list |-> list \cup {governor}, df |-> d, trace |-> <<>>]

\* devfreq_remove_governor that leaves the device alone when STOP fails.
devfreq_remove_governor_stop_blocks(list, d, governor, rets) ==
    LET g == find_devfreq_governor(list, governor.name)
    IN  IF g.err # OK
        THEN [ret |-> g.err, list |-> list, df |-> d, trace |-> <<>>]
        ELSE IF d.governor_name = governor.name /\ d.governor # NULL
        THEN [ret |-> OK, list |-> list \ {governor},
              df |-> IF rets.stop = OK THEN [d EXCEPT !.governor = NULL] ELSE d,
              trace |-> <<Event(d.governor, DEVFREQ_GOV_STOP, rets.stop)>>]
        ELSE [ret |-> OK, list |-> list \ {governor}, df |-> d, trace |-> <<>>]

\* devfreq_remove_governor, for the one device on devfreq_list.
devfreq_remove_governor(list, d, governor, rets) ==
    LET g == find_devfreq_governor(list, governor.name)
    IN  IF g.err # OK
        THEN [ret |-> g.err, list |-> list, df |-> d, trace |-> <<>>]
        ELSE IF d.governor_name = governor.name /\ d.governor # NULL
        THEN [ret |-> OK, list |-> list \ {governor},
              df |-> [d EXCEPT !.governor = NULL],
              trace |-> <<Event(d.governor, DEVFREQ_GOV_STOP, rets.stop)>>]
        ELSE [ret |-> OK, list |-> list \ {governor}, df |-> d, trace |-> <<>>]

\* The answers the event handlers can give.  An answer nobody asks for is
\* left at OK.
EventInputs(asks) ==
    { [stop |-> a, start |-> b, restart |-> c] :
        a \in (IF "stop" \in asks THEN EventRets ELSE {OK}),
        b \in (IF "start" \in asks THEN EventRets ELSE {OK}),
        c \in (IF "restart" \in asks THEN EventRets ELSE {OK}) }

----------------------------------------------------------------------------
(* Threads of control, locks and the delayed work item.                     *)

\* The threads that run handlers: the workqueue's worker, a caller of the
\* notifier chain or writer of min_freq/max_freq, a caller of the device's
\* administrative handlers, and a module registering governors.
Threads == {"kworker", "notifier", "admin", "registrar"}

\* devfreq->lock, devfreq->event_lock and devfreq_list_lock.
Locks == {"lock", "event_lock", "devfreq_list_lock"}
Unlocked == [l \in Locks |-> "none"]

\* devfreq->work: PENDING is set from queueing until the worker takes the
\* item (or a canceller owns it); `armed` counts the instances waiting on a
\* timer or a worklist, `delay` is the delay the waiting one was queued
\* with, `running` counts those inside devfreq_monitor.  `stopped`
\* remembers that devfreq_monitor_stop has returned with no queueing since.
WorkIdle == [pending |-> FALSE, armed |-> 0, running |-> 0, canceling |-> FALSE,
             stopped |-> FALSE, delay |-> 0]

NoInput == [gov_ret |-> OK, gov_freq |-> 0, cur_freq |-> 0, drv_ret |-> OK, drv_freq |-> 0]

\* A thread outside every handler.
NoTask == [todo |-> <<>>, err |-> OK, in |-> NoInput, gov |-> NULL,
           event |-> "none", arg |-> 0]

\* devfreq_list holds the structs devfreq registered: "df", the device the
\* model follows, and those a thread registers, each named after the thread
\* that allocated it.  `log` is what has been done to unlink, stop and free
\* them, in order: the operation and the struct it was done to.  `names`
\* holds the structs whose device the driver core has registered, under
\* the parent's name, and not yet deleted.  Listed: the device registered
\* and on the list.
Listed == [devfreq_list |-> <<"df">>, log |-> <<>>, names |-> {"df"}]

\* The struct devfreq named dev is on devfreq_list.
OnList(dev) == \E i \in DOMAIN heap.devfreq_list : heap.devfreq_list[i] = dev

\* No handler in flight, no polling.
AtRest ==
    /\ mutex = Unlocked
    /\ work = WorkIdle
    /\ polling_ms = 0
    /\ task = [t \in Threads |-> NoTask]
    /\ notes = <<>>
    /\ heap = Listed

----------------------------------------------------------------------------
(* The model's record of the handler in flight.  A caller invokes one       *)
(* handler, the handler runs to completion, and the caller takes the        *)
(* return value (Return) before the next handler is invoked.                *)

NoNumber == [parsed |-> FALSE, value |-> 0]
Idle == [op |-> "idle", name |-> "", buf |-> NoNumber]

\* A handler's effect on the model: the device it leaves, and the record of
\* what it did.
Handled(op, name, buf, r) ==
    /\ df' = r.df
    /\ call' = [op |-> op, name |-> name, buf |-> buf]
    /\ pre' = df
    /\ ret' = r.ret
    /\ trace' = r.trace

Return ==
    /\ call # Idle
    /\ call' = Idle
    /\ pre' = df
    /\ ret' = OK
    /\ trace' = <<>>
    /\ UNCHANGED <<devfreq_governor_list, df, jiffies, kern>>

\* Updates stop counting transitions at MaxTrans.
WithinTrans(r) == r.df.total_trans <= MaxTrans

Tick ==
    /\ call = Idle
    /\ jiffies < MaxJiffies
    /\ jiffies' = jiffies + 1
    /\ UNCHANGED <<devfreq_governor_list, df, call, pre, ret, trace, kern>>

DoNotifierCall ==
    /\ call = Idle
    /\ \E in \in UpdateInputs(df) :
        LET r == devfreq_notifier_call(df, in, jiffies)
        IN  /\ WithinTrans(r)
            /\ Handled("devfreq_notifier_call", "", NoNumber, r)
            /\ UNCHANGED <<devfreq_governor_list, jiffies, kern>>

DoMinFreqStore ==
    /\ call = Idle
    /\ \E buf \in NumberBufs :
        \E in \in UpdateInputs([df EXCEPT !.min_freq = buf.value]) :
            LET r == min_freq_store(df, buf, in, jiffies)
            IN  /\ WithinTrans(r)
                /\ Handled("min_freq_store", "", buf, r)
                /\ UNCHANGED <<devfreq_governor_list, jiffies, kern>>

DoMaxFreqStore ==
    /\ call = Idle
    /\ \E buf \in NumberBufs :
        \E in \in UpdateInputs([df EXCEPT !.max_freq = buf.value]) :
            LET r == max_freq_store(df, buf, in, jiffies)
            IN  /\ WithinTrans(r)
                /\ Handled("max_freq_store", "", buf, r)
                /\ UNCHANGED <<devfreq_governor_list, jiffies, kern>>

\* The device as registration leaves it: registered with a governor that
\* started, or with that governor unregistered since (governor == NULL).
Registered(list, profile, g) ==
    LET a == devfreq_add_device(list, profile, g.name, 0, OK)
    IN  /\ a.added
        /\ \/ /\ devfreq_governor_list = list
              /\ df = a.df
           \/ /\ devfreq_governor_list = list \ {g}
              /\ df = [a.df EXCEPT !.governor = NULL]
        /\ call = Idle
        /\ pre = df
        /\ ret = OK
        /\ trace = <<>>
        /\ AtRest

Performance == CHOOSE g \in Governors : g.name = "performance"

\* Spec: the limits of a registered device under writes to min_freq and
\* max_freq and notifier-driven updates, at one instant.
Init ==
    /\ jiffies = 0
    /\ \E profile \in Profiles : Registered({Performance}, profile, Performance)

Next == DoNotifierCall \/ DoMinFreqStore \/ DoMaxFreqStore \/ Return

Spec == Init /\ [][Next]_vars

DoGovernorStore ==
    /\ call = Idle
    /\ \E buf \in GovernorBufs, rets \in EventInputs({"stop", "start", "restart"}) :
        LET r == governor_store(devfreq_governor_list, df, buf, rets)
        IN  /\ Handled("governor_store", buf, NoNumber, r)
            /\ UNCHANGED <<devfreq_governor_list, jiffies, kern>>

DoAddGovernor ==
    /\ call = Idle
    /\ \E g \in Governors, rets \in EventInputs({"stop", "start"}) :
        LET r == devfreq_add_governor(devfreq_governor_list, df, g, rets)
        IN  /\ Handled("devfreq_add_governor", g.name, NoNumber, r)
            /\ devfreq_governor_list' = r.list
            /\ UNCHANGED <<jiffies, kern>>

DoRemoveGovernor ==
    /\ call = Idle
    /\ \E g \in Governors, rets \in EventInputs({"stop"}) :
        LET r == devfreq_remove_governor(devfreq_governor_list, df, g, rets)
        IN  /\ Handled("devfreq_remove_governor", g.name, NoNumber, r)
            /\ devfreq_governor_list' = r.list
            /\ UNCHANGED <<jiffies, kern>>

\* GovSpec: the governor of a registered device under governor
\* registration, deregistration and writes to the governor attribute.
GovInit ==
    /\ jiffies = 0
    /\ \E g \in Governors :
           Registered({g}, CHOOSE p \in Profiles : p.opp_count = 0 /\ p.freq_table = <<>>, g)

GovNext == DoGovernorStore \/ DoAddGovernor \/ DoRemoveGovernor \/ Return

GovSpec == GovInit /\ [][GovNext]_vars

\* The boost driver switching max_boost; it marks the devices it manages
\* with is_boost_device.
devfreq_boost(d, on) == [d EXCEPT !.max_boost = on, !.is_boost_device = TRUE]

DoBoost ==
    /\ call = Idle
    /\ \E on \in BOOLEAN :
        /\ df.max_boost # on
        /\ df' = devfreq_boost(df, on)
        /\ pre' = df'
    /\ UNCHANGED <<devfreq_governor_list, jiffies, call, ret, trace, kern>>

\* A write to max_freq of anything an unsigned long holds, up to ULONG_MAX.
LimitBufs == NumberBufs \cup {[parsed |-> TRUE, value |-> ULONG_MAX]}

DoMaxFreqStoreAny ==
    /\ call = Idle
    /\ \E buf \in LimitBufs :
        \E in \in UpdateInputs([df EXCEPT !.max_freq = buf.value]) :
            LET r == max_freq_store(df, buf, in, jiffies)
            IN  /\ WithinTrans(r)
                /\ Handled("max_freq_store", "", buf, r)
                /\ UNCHANGED <<devfreq_governor_list, jiffies, kern>>

\* BoostSpec: updates of a registered device whose max_boost is switched on
\* and off, under writes to max_freq.
BoostNext == DoBoost \/ DoNotifierCall \/ DoMaxFreqStoreAny \/ Return

BoostSpec == Init /\ [][BoostNext]_vars

DoMonitorSuspend ==
    /\ call = Idle
    /\ work.running = 0
    /\ LET r == devfreq_monitor_suspend(df, work, jiffies)
       IN  /\ Handled("devfreq_monitor_suspend", "", NoNumber, r)
           /\ work' = r.work
    /\ UNCHANGED <<devfreq_governor_list, jiffies, mutex, polling_ms, task, notes, heap>>

DoMonitorResume ==
    /\ call = Idle
    /\ \E cur \in CurFreqAnswers(df) :
        LET r == devfreq_monitor_resume(df, work, polling_ms, jiffies, cur)
        IN  /\ Handled("devfreq_monitor_resume", "", NoNumber, r)
            /\ work' = r.work
    /\ UNCHANGED <<devfreq_governor_list, jiffies, mutex, polling_ms, task, notes, heap>>

DoTransStatShow ==
    /\ call = Idle
    /\ Handled("trans_stat_show", "", NoNumber, trans_stat_show(df, jiffies))
    /\ UNCHANGED <<devfreq_governor_list, jiffies, kern>>

\* StatSpec: the statistics of a registered device as time passes, under
\* updates, reads of trans_stat, suspend and resume.
StatNext ==
    \/ Tick \/ DoNotifierCall \/ DoTransStatShow
    \/ DoMonitorSuspend \/ DoMonitorResume \/ Return

StatSpec == Init /\ [][StatNext]_vars

\* SuspendSpec: the same with writes to min_freq.
SuspendNext == StatNext \/ DoMinFreqStore

SuspendSpec == Init /\ [][SuspendNext]_vars

\* AwakeSpec: the same for a device that is never suspended.
AwakeNext == Tick \/ DoNotifierCall \/ DoTransStatShow \/ Return

AwakeSpec == Init /\ [][AwakeNext]_vars

\* UpdateSpec: notifier-driven updates of a registered device as time passes.
UpdateNext == Tick \/ DoNotifierCall \/ Return

UpdateSpec == Init /\ [][UpdateNext]_vars

----------------------------------------------------------------------------
(* The handlers step by step.  A thread inside a handler carries the steps  *)
(* it has left (task[t].todo); a step may put further steps in front.       *)
(* Between two steps of one thread any other thread may take steps.         *)

seq == <<jiffies, call, pre, ret, trace>>

Op(o) == [op |-> o, s |-> "", n |-> 0, g |-> NULL]
OpS(o, str) == [op |-> o, s |-> str, n |-> 0, g |-> NULL]
OpN(o, num) == [op |-> o, s |-> "", n |-> num, g |-> NULL]
OpG(o, str, gov) == [op |-> o, s |-> str, n |-> 0, g |-> gov]

mutex_lock(l) == OpS("lock", l)
mutex_unlock(l) == OpS("unlock", l)

\* devfreq_monitor with its re-arming left out.
devfreq_monitor_once ==
    <<mutex_lock("lock"), Op("check"), mutex_unlock("lock"), Op("work_done")>>

\* devfreq_monitor, the work function.
devfreq_monitor_steps ==
    <<mutex_lock("lock"), Op("check"), OpS("queue", "rearm"), mutex_unlock("lock"),
      Op("work_done")>>

devfreq_notifier_call_steps ==
    <<mutex_lock("lock"), Op("check"), mutex_unlock("lock")>>

min_freq_store_steps(value) ==
    <<mutex_lock("event_lock"), mutex_lock("lock"), OpN("set_min", value),
      mutex_unlock("lock"), mutex_unlock("event_lock")>>

devfreq_monitor_start_steps == <<Op("init_work"), OpS("queue", "start")>>

\* cancel_delayed_work_sync: dequeue the work, then wait for it.
cancel_delayed_work_sync_steps == <<Op("cancel_grab"), Op("cancel_wait")>>

devfreq_monitor_stop_steps == cancel_delayed_work_sync_steps

devfreq_monitor_suspend_steps == <<mutex_lock("lock"), Op("suspend_status")>>

devfreq_monitor_resume_steps ==
    <<mutex_lock("lock"), Op("resume_status"), mutex_unlock("lock")>>

devfreq_interval_update_steps(delay) ==
    <<Op("interval_read"), mutex_lock("lock"), OpN("interval_set", delay)>>

\* devfreq_interval_update that turns polling off without cancelling.
interval_branch_store_only(d, cur_delay, new_delay) ==
    IF d.stop_polling \/ new_delay = 0 THEN <<mutex_unlock("lock")>>
    ELSE IF cur_delay = 0
    THEN <<[OpS("queue", "interval") EXCEPT !.n = new_delay], mutex_unlock("lock")>>
    ELSE IF cur_delay > new_delay
    THEN <<mutex_unlock("lock")>> \o cancel_delayed_work_sync_steps
         \o <<mutex_lock("lock"), OpS("queue", "restart"), mutex_unlock("lock")>>
    ELSE <<mutex_unlock("lock")>>

\* devfreq_interval_update cancelling with the device lock held.
interval_branch_cancel_locked(d, cur_delay, new_delay) ==
    IF d.stop_polling THEN <<mutex_unlock("lock")>>
    ELSE IF new_delay = 0
    THEN cancel_delayed_work_sync_steps \o <<mutex_unlock("lock")>>
    ELSE IF cur_delay = 0
    THEN <<[OpS("queue", "interval") EXCEPT !.n = new_delay], mutex_unlock("lock")>>
    ELSE IF cur_delay > new_delay
    THEN <<mutex_unlock("lock")>> \o cancel_delayed_work_sync_steps
         \o <<mutex_lock("lock"), OpS("queue", "restart"), mutex_unlock("lock")>>
    ELSE <<mutex_unlock("lock")>>

\* Lines 453-480 of devfreq_interval_update, polling_ms being set: what is
\* left to do for the old and the new delay.
interval_branch(d, cur_delay, new_delay) ==
    IF d.stop_polling THEN <<mutex_unlock("lock")>>
    ELSE IF new_delay = 0
    THEN <<mutex_unlock("lock")>> \o cancel_delayed_work_sync_steps
    ELSE IF cur_delay = 0
    THEN <<[OpS("queue", "interval") EXCEPT !.n = new_delay], mutex_unlock("lock")>>
    ELSE IF cur_delay > new_delay
    THEN <<mutex_unlock("lock")>> \o cancel_delayed_work_sync_steps
         \o <<mutex_lock("lock"), OpS("queue", "restart"), mutex_unlock("lock")>>
    ELSE <<mutex_unlock("lock")>>

\* The event handler of a governor that polls: it answers each event with
\* the monitor helper meant for it and returns 0.
event_handler_steps(event, arg) ==
    <<OpS("enter", event)>>
    \o (CASE event = DEVFREQ_GOV_START -> devfreq_monitor_start_steps
          [] event = DEVFREQ_GOV_STOP -> devfreq_monitor_stop_steps
          [] event = "SUSPEND" -> devfreq_monitor_suspend_steps
          [] event = "RESUME" -> devfreq_monitor_resume_steps
          [] event = "INTERVAL" -> devfreq_interval_update_steps(arg))
    \o <<Op("leave")>>

devfreq_suspend_device_steps ==
    <<mutex_lock("event_lock")>> \o event_handler_steps("SUSPEND", 0)
    \o <<mutex_unlock("event_lock")>>

devfreq_resume_device_steps ==
    <<mutex_lock("event_lock")>> \o event_handler_steps("RESUME", 0)
    \o <<mutex_unlock("event_lock")>>

polling_interval_store_steps(value) ==
    <<mutex_lock("event_lock")>> \o event_handler_steps("INTERVAL", value)
    \o <<mutex_unlock("event_lock")>>

governor_store_steps(str_governor) ==
    <<mutex_lock("devfreq_list_lock"), OpS("find", str_governor),
      mutex_unlock("devfreq_list_lock")>>

\* Lines 997-1023 of governor_store, the governors answering 0.
governor_switch_steps(d, governor) ==
    <<mutex_lock("event_lock")>>
    \o (IF d.governor # NULL THEN event_handler_steps(DEVFREQ_GOV_STOP, 0) ELSE <<>>)
    \o <<OpG("set_governor", "name", governor)>>
    \o event_handler_steps(DEVFREQ_GOV_START, 0)
    \o <<mutex_unlock("event_lock")>>

devfreq_add_governor_steps(governor) ==
    <<mutex_lock("devfreq_list_lock"), OpG("list_add", "", governor),
      mutex_unlock("devfreq_list_lock")>>

\* Lines 863-888 of devfreq_add_governor for the device.
add_governor_device_steps(d, governor) ==
    IF d.governor_name # governor.name THEN <<>>
    ELSE (IF d.governor # NULL THEN event_handler_steps(DEVFREQ_GOV_STOP, 0) ELSE <<>>)
         \o <<OpG("set_governor", "", governor)>>
         \o event_handler_steps(DEVFREQ_GOV_START, 0)

devfreq_remove_governor_steps(governor) ==
    <<mutex_lock("devfreq_list_lock"), OpG("list_find", "", governor),
      mutex_unlock("devfreq_list_lock")>>

\* Lines 925-945 of devfreq_remove_governor for the device.
remove_governor_device_steps(d, governor) ==
    (IF d.governor_name = governor.name /\ d.governor # NULL
     THEN event_handler_steps(DEVFREQ_GOV_STOP, 0) \o <<OpG("set_governor", "", NULL)>>
     ELSE <<>>)
    \o <<OpG("list_del", "", governor)>>

\* _remove_devfreq (lines 510-526), which device_unregister runs through
\* devfreq_dev_release once the last reference is gone.
remove_devfreq_steps(dev) ==
    <<mutex_lock("devfreq_list_lock"), OpS("node_del", dev),
      mutex_unlock("devfreq_list_lock"), OpS("remove_stop", dev),
      OpS("exit", dev), OpS("mutex_destroy", dev), OpS("kfree", dev)>>

\* device_unregister: device_del takes the device's name out of the parent's
\* directory, and the release of the last reference, devfreq_dev_release
\* (lines 534-539), is _remove_devfreq.
device_unregister_steps(dev) == <<OpS("device_del", dev)>> \o remove_devfreq_steps(dev)

\* devfreq_remove_device (lines 663-671).
devfreq_remove_device_steps == device_unregister_steps("df")

----------------------------------------------------------------------------
(* One step of a thread.                                                    *)

At(t, o) == task[t].todo # <<>> /\ task[t].todo[1].op = o
Cur(t) == task[t].todo[1]

\* Thread t has done its first step with `more` to do before the rest; rec
\* is what it remembers.  A thread with nothing left is outside handlers.
Step(t, more, rec) ==
    task' = [task EXCEPT ![t] =
                LET rest == more \o Tail(task[t].todo)
                IN  IF rest = <<>> THEN NoTask ELSE [rec EXCEPT !.todo = rest]]

\* A NULL governor dereferenced: the thread dies where it is, holding what
\* it holds.
Oops(t) == task' = [task EXCEPT ![t] = [NoTask EXCEPT !.err = "oops"]]

\* The notification kept is the last one delivered: its state, the old
\* frequency it names, the thread whose update delivered it, and whether an
\* odd number of notifications has been delivered so far.
Notify(log, n, t) ==
    <<[state |-> n.state, old |-> n.old, by |-> t,
       odd |-> IF log = <<>> THEN TRUE ELSE ~log[1].odd]>>

NotifyAll(log, ns, t) ==
    IF ns = <<>> THEN log
    ELSE IF Len(ns) = 1 THEN Notify(log, ns[1], t)
    ELSE Notify(Notify(log, ns[1], t), ns[2], t)

StateOnly(tr, state) ==
    SelectSeq(tr, LAMBDA e : e.cb = "notify" /\ e.state = state)

\* The answers met by the updates of concurrent handlers: the governor fails
\* or names the lowest or highest frequency, the driver fails or settles on
\* what it was asked for.
PollInputs(d) ==
    { in \in UpdateInputs(d) :
        /\ in.gov_ret = OK => in.gov_freq \in {1, MaxFreq}
        /\ in.drv_ret = OK =>
             in.drv_freq = clamp_to_limits(d.min_freq, d.max_freq, in.gov_freq).freq }

Applying(d, in) ==
    apply_target(d, clamp_to_limits(d.min_freq, d.max_freq, in.gov_freq),
                 read_cur_freq(d, in), in, jiffies)

mutex_lock_step(t) ==
    /\ At(t, "lock")
    /\ mutex[Cur(t).s] = "none"
    /\ mutex' = [mutex EXCEPT ![Cur(t).s] = t]
    /\ Step(t, <<>>, task[t])
    /\ UNCHANGED <<devfreq_governor_list, df, work, polling_ms, notes, seq, heap>>

mutex_unlock_step(t) ==
    /\ At(t, "unlock")
    /\ mutex' = [mutex EXCEPT ![Cur(t).s] = "none"]
    /\ Step(t, <<>>, task[t])
    /\ UNCHANGED <<devfreq_governor_list, df, work, polling_ms, notes, seq, heap>>

\* update_devfreq, lines 260-266: the lock is held, is there a governor.
update_check(t) ==
    /\ At(t, "check")
    /\ IF df.governor = NULL
       THEN Step(t, <<>>, [task[t] EXCEPT !.err = EINVAL])
       ELSE Step(t, <<Op("ask")>>, [task[t] EXCEPT !.gov = df.governor])
    /\ UNCHANGED <<devfreq_governor_list, df, mutex, work, polling_ms, notes, seq, heap>>

\* update_devfreq, lines 268-302: the governor's get_target_freq through
\* devfreq->governor, the limits, the PRECHANGE notification.
update_ask(t) ==
    /\ At(t, "ask")
    /\ IF df.governor = NULL
       THEN Oops(t) /\ UNCHANGED notes
       ELSE \E in \in PollInputs(df) :
              IF in.gov_ret # OK
              THEN /\ Step(t, <<>>, [task[t] EXCEPT !.err = in.gov_ret])
                   /\ UNCHANGED notes
              ELSE /\ Step(t, <<Op("apply")>>, [task[t] EXCEPT !.in = in])
                   /\ notes' = NotifyAll(notes,
                                  StateOnly(Applying(df, in).trace, DEVFREQ_PRECHANGE), t)
    /\ UNCHANGED <<devfreq_governor_list, df, mutex, work, polling_ms, seq, heap>>

\* update_devfreq, lines 304-320: the driver's target, the POSTCHANGE
\* notification, the statistics and previous_freq.
update_apply(t) ==
    /\ At(t, "apply")
    /\ LET r == Applying(df, task[t].in)
       IN  /\ df' = r.df
           /\ notes' = NotifyAll(notes, StateOnly(r.trace, DEVFREQ_POSTCHANGE), t)
           /\ Step(t, <<>>, [task[t] EXCEPT !.err = r.ret, !.in = NoInput])
    /\ UNCHANGED <<devfreq_governor_list, mutex, work, polling_ms, seq, heap>>

\* The four places that queue the work: devfreq_monitor re-arming (line
\* 340), devfreq_monitor_start (357-359), devfreq_interval_update when
\* polling was off (464-466) and after shortening the delay (475-477).
queue_work(t) ==
    /\ At(t, "queue")
    /\ work' =
         CASE Cur(t).s = "rearm" -> queue_delayed_work(work, polling_ms)
           [] Cur(t).s = "start" ->
                IF polling_ms # 0
                THEN [queue_delayed_work(work, polling_ms) EXCEPT !.stopped = FALSE]
                ELSE work
           [] Cur(t).s = "interval" ->
                [queue_delayed_work(work, polling_ms) EXCEPT !.stopped = FALSE]
           [] Cur(t).s = "restart" ->
                IF ~df.stop_polling
                THEN [queue_delayed_work(work, polling_ms) EXCEPT !.stopped = FALSE]
                ELSE work
    /\ Step(t, <<>>, task[t])
    /\ UNCHANGED <<devfreq_governor_list, df, mutex, polling_ms, notes, seq, heap>>

\* Queued instances of the work are followed up to this many.
MaxArmed == 2

\* INIT_DEFERRABLE_WORK (line 356).  On an idle item it changes nothing; on
\* a queued one PENDING is lost and the queued instance may stay or go.
init_work(t) ==
    /\ At(t, "init_work")
    /\ \E a \in {0} \cup (IF work.armed < MaxArmed THEN {work.armed} ELSE {}) :
         work' = [work EXCEPT !.pending = FALSE, !.canceling = FALSE, !.armed = a,
                              !.delay = IF a = 0 THEN 0 ELSE @]
    /\ Step(t, <<>>, task[t])
    /\ UNCHANGED <<devfreq_governor_list, df, mutex, polling_ms, notes, seq, heap>>

\* cancel_delayed_work_sync, first half: the item is taken off its timer or
\* worklist and PENDING is held against re-queueing.
cancel_grab_step(t) ==
    /\ At(t, "cancel_grab")
    /\ ~work.canceling
    /\ work' = cancel_grab(work)
    /\ Step(t, <<>>, task[t])
    /\ UNCHANGED <<devfreq_governor_list, df, mutex, polling_ms, notes, seq, heap>>

\* cancel_delayed_work_sync, second half: wait for a running instance.
\* Inside a STOP event this is where devfreq_monitor_stop returns.
cancel_wait_step(t) ==
    /\ At(t, "cancel_wait")
    /\ work.running = 0
    /\ work' = [cancel_done(work) EXCEPT
                  !.stopped = @ \/ task[t].event = DEVFREQ_GOV_STOP]
    /\ Step(t, <<>>, task[t])
    /\ UNCHANGED <<devfreq_governor_list, df, mutex, polling_ms, notes, seq, heap>>

\* devfreq->governor->event_handler(devfreq, event, ...) entered.
event_enter(t) ==
    /\ At(t, "enter")
    /\ IF df.governor = NULL THEN Oops(t)
       ELSE Step(t, <<>>, [task[t] EXCEPT !.event = Cur(t).s])
    /\ UNCHANGED <<devfreq_governor_list, df, mutex, work, polling_ms, notes, seq, heap>>

\* The event handler returns.
event_leave(t) ==
    /\ At(t, "leave")
    /\ Step(t, <<>>, [task[t] EXCEPT !.event = "none"])
    /\ UNCHANGED <<devfreq_governor_list, df, mutex, work, polling_ms, notes, seq, heap>>

\* devfreq_monitor has returned to the worker.
work_done(t) ==
    /\ At(t, "work_done")
    /\ work' = [work EXCEPT !.running = @ - 1]
    /\ Step(t, <<>>, task[t])
    /\ UNCHANGED <<devfreq_governor_list, df, mutex, polling_ms, notes, seq, heap>>

\* devfreq_monitor_suspend, lines 391-400, the lock held.
suspend_status_step(t) ==
    /\ At(t, "suspend_status")
    /\ LET r == suspend_status(df, jiffies)
       IN  /\ df' = r.df
           /\ Step(t, IF r.go
                      THEN <<mutex_unlock("lock")>> \o cancel_delayed_work_sync_steps
                      ELSE <<mutex_unlock("lock")>>, task[t])
    /\ UNCHANGED <<devfreq_governor_list, mutex, work, polling_ms, notes, seq, heap>>

\* devfreq_monitor_resume, lines 416-430, the lock held.
resume_status_step(t) ==
    /\ At(t, "resume_status")
    /\ \E cur \in CurFreqAnswers(df) :
         LET r == resume_status(df, work, polling_ms, jiffies, cur)
         IN  df' = r.df /\ work' = r.work
    /\ Step(t, <<>>, task[t])
    /\ UNCHANGED <<devfreq_governor_list, mutex, polling_ms, notes, seq, heap>>

\* devfreq_interval_update, line 447: the old delay, read before the lock.
interval_read(t) ==
    /\ At(t, "interval_read")
    /\ Step(t, <<>>, [task[t] EXCEPT !.arg = polling_ms])
    /\ UNCHANGED <<devfreq_governor_list, df, mutex, work, polling_ms, notes, seq, heap>>

\* devfreq_interval_update, lines 451-452, the lock held.
interval_set(t) ==
    /\ At(t, "interval_set")
    /\ polling_ms' = Cur(t).n
    /\ Step(t, interval_branch(df, task[t].arg, Cur(t).n), [task[t] EXCEPT !.arg = 0])
    /\ UNCHANGED <<devfreq_governor_list, df, mutex, work, notes, seq, heap>>

\* min_freq_store, lines 1145-1152, both locks held.
set_min(t) ==
    /\ At(t, "set_min")
    /\ IF min_above_max(Cur(t).n, df.max_freq)
       THEN /\ Step(t, <<>>, [task[t] EXCEPT !.err = EINVAL])
            /\ UNCHANGED df
       ELSE /\ df' = [df EXCEPT !.min_freq = Cur(t).n]
            /\ Step(t, <<Op("check")>>, task[t])
    /\ UNCHANGED <<devfreq_governor_list, mutex, work, polling_ms, notes, seq, heap>>

\* governor_store, lines 983-995, the list lock held.
governor_find(t) ==
    /\ At(t, "find")
    /\ LET g == find_devfreq_governor(devfreq_governor_list, Cur(t).s)
       IN  IF g.err # OK THEN Step(t, <<>>, [task[t] EXCEPT !.err = g.err])
           ELSE IF same_governor(df, g.governor) THEN Step(t, <<>>, task[t])
           ELSE IF immutable_conflict(df, g.governor)
           THEN Step(t, <<>>, [task[t] EXCEPT !.err = EINVAL])
           ELSE Step(t, governor_switch_steps(df, g.governor), task[t])
    /\ UNCHANGED <<devfreq_governor_list, df, mutex, work, polling_ms, notes, seq, heap>>

\* devfreq->governor written: by governor_store with the name (lines
\* 1006-1008), by devfreq_add_governor (880), by devfreq_remove_governor
\* (941).
set_governor(t) ==
    /\ At(t, "set_governor")
    /\ df' = IF Cur(t).s = "name"
             THEN [df EXCEPT !.governor = Cur(t).g, !.governor_name = Cur(t).g.name]
             ELSE [df EXCEPT !.governor = Cur(t).g]
    /\ Step(t, <<>>, task[t])
    /\ UNCHANGED <<devfreq_governor_list, mutex, work, polling_ms, notes, seq, heap>>

\* devfreq_add_governor, lines 849-863, the list lock held.
list_add(t) ==
    /\ At(t, "list_add")
    /\ IF find_devfreq_governor(devfreq_governor_list, Cur(t).g.name).err = OK
       THEN /\ Step(t, <<>>, [task[t] EXCEPT !.err = EINVAL])
            /\ UNCHANGED devfreq_governor_list
       ELSE /\ devfreq_governor_list' = devfreq_governor_list \cup {Cur(t).g}
            /\ Step(t, IF OnList("df") THEN add_governor_device_steps(df, Cur(t).g)
                       ELSE <<>>, task[t])
    /\ UNCHANGED <<df, mutex, work, polling_ms, notes, seq, heap>>

\* devfreq_remove_governor, lines 914-933, the list lock held.
list_find(t) ==
    /\ At(t, "list_find")
    /\ LET g == find_devfreq_governor(devfreq_governor_list, Cur(t).g.name)
       IN  IF g.err # OK THEN Step(t, <<>>, [task[t] EXCEPT !.err = g.err])
           ELSE Step(t, IF OnList("df") THEN remove_governor_device_steps(df, Cur(t).g)
                        ELSE <<OpG("list_del", "", Cur(t).g)>>, task[t])
    /\ UNCHANGED <<devfreq_governor_list, df, mutex, work, polling_ms, notes, seq, heap>>

\* devfreq_remove_governor, line 945.
list_del(t) ==
    /\ At(t, "list_del")
    /\ devfreq_governor_list' = devfreq_governor_list \ {Cur(t).g}
    /\ Step(t, <<>>, task[t])
    /\ UNCHANGED <<df, mutex, work, polling_ms, notes, seq, heap>>

\* device_unregister, lines 648 and 668: device_del.
device_del(t) ==
    /\ At(t, "device_del")
    /\ heap' = [heap EXCEPT !.names = @ \ {Cur(t).s}]
    /\ Step(t, <<>>, task[t])
    /\ UNCHANGED <<devfreq_governor_list, df, mutex, work, polling_ms, notes, seq>>

\* What was done to the struct devfreq named dev.
Done(what, dev) == [op |-> what, dev |-> dev]

\* list_del on the node, the list lock held (line 513 of _remove_devfreq,
\* line 645 of devfreq_add_device).  On a node already unlinked list_del
\* follows the poisoned pointers it left there: the thread faults, or (a
\* build that checks list entries) the corruption is reported and the
\* thread goes on.
node_del(t) ==
    /\ At(t, "node_del")
    /\ heap' = [heap EXCEPT
                   !.devfreq_list = SelectSeq(@, LAMBDA dev : dev # Cur(t).s),
                   !.log = Append(@, Done("list_del", Cur(t).s))]
    /\ \E fault \in IF OnList(Cur(t).s) THEN {FALSE} ELSE BOOLEAN :
           IF fault THEN Oops(t) ELSE Step(t, <<>>, task[t])
    /\ UNCHANGED <<devfreq_governor_list, df, mutex, work, polling_ms, notes, seq>>

\* _remove_devfreq, lines 516-518: STOP to the governor, if there is one.
\* Of a struct a thread registers the model keeps the governor pointer
\* (the thread's `gov`), not the work item STOP would cancel.
remove_stop(t) ==
    /\ At(t, "remove_stop")
    /\ LET dev == Cur(t).s
           governor == IF dev = "df" THEN df.governor ELSE task[t].gov
       IN  IF governor # NULL
           THEN /\ heap' = [heap EXCEPT
                               !.log = Append(@, Done(DEVFREQ_GOV_STOP, dev))]
                /\ Step(t, IF dev = "df"
                           THEN event_handler_steps(DEVFREQ_GOV_STOP, 0)
                           ELSE <<>>, task[t])
           ELSE /\ Step(t, <<>>, task[t])
                /\ UNCHANGED heap
    /\ UNCHANGED <<devfreq_governor_list, df, mutex, work, polling_ms, notes, seq>>

\* _remove_devfreq, lines 520-525: the driver's exit hook, mutex_destroy on
\* both locks, kfree; and the kfree of devfreq_add_device, line 651.
teardown(t) ==
    /\ task[t].todo # <<>> /\ Cur(t).op \in {"exit", "mutex_destroy", "kfree"}
    /\ heap' = [heap EXCEPT !.log = Append(@, Done(Cur(t).op, Cur(t).s))]
    /\ Step(t, <<>>, task[t])
    /\ UNCHANGED <<devfreq_governor_list, df, mutex, work, polling_ms, notes, seq>>

----------------------------------------------------------------------------
(* Handlers entered.  A thread enters a handler when it is outside all.     *)

Enter(t, steps) == task' = [task EXCEPT ![t] = [NoTask EXCEPT !.todo = steps]]

\* The worker takes a queued instance off: PENDING is cleared (unless a
\* canceller holds it) and devfreq_monitor runs.
TakeWork ==
    /\ task["kworker"] = NoTask
    /\ work.armed > 0
    /\ work' = [work EXCEPT !.armed = @ - 1, !.running = @ + 1,
                            !.pending = work.canceling,
                            !.delay = IF work.armed > 1 THEN @ ELSE 0]
    /\ Enter("kworker", devfreq_monitor_steps)
    /\ UNCHANGED <<devfreq_governor_list, df, mutex, polling_ms, notes, seq, heap>>

CallNotifier ==
    /\ task["notifier"] = NoTask
    /\ Enter("notifier", devfreq_notifier_call_steps)
    /\ UNCHANGED <<devfreq_governor_list, df, mutex, work, polling_ms, notes, seq, heap>>

\* A number written to min_freq: 0 lifts the bound.
WriteMinFreq ==
    /\ task["notifier"] = NoTask
    /\ \E value \in {0, MaxFreq} : Enter("notifier", min_freq_store_steps(value))
    /\ UNCHANGED <<devfreq_governor_list, df, mutex, work, polling_ms, notes, seq, heap>>

\* devfreq_suspend_device; without a governor it returns at once (line 797).
SuspendDevice ==
    /\ task["admin"] = NoTask
    /\ df.governor # NULL
    /\ Enter("admin", devfreq_suspend_device_steps)
    /\ UNCHANGED <<devfreq_governor_list, df, mutex, work, polling_ms, notes, seq, heap>>

\* devfreq_resume_device; without a governor it returns at once (line 820).
ResumeDevice ==
    /\ task["admin"] = NoTask
    /\ df.governor # NULL
    /\ Enter("admin", devfreq_resume_device_steps)
    /\ UNCHANGED <<devfreq_governor_list, df, mutex, work, polling_ms, notes, seq, heap>>

\* The polling intervals written, in milliseconds; 0 turns polling off.
MaxInterval == 2
Intervals == 0..MaxInterval

\* polling_interval_store; without a governor it fails at once (line 1111).
WritePollingInterval ==
    /\ task["admin"] = NoTask
    /\ df.governor # NULL
    /\ \E value \in Intervals : Enter("admin", polling_interval_store_steps(value))
    /\ UNCHANGED <<devfreq_governor_list, df, mutex, work, polling_ms, notes, seq, heap>>

\* Governors that poll.
PollingGovernors ==
    { [name |-> "simple_ondemand", immutable |-> FALSE],
      [name |-> "msm-adreno-tz",   immutable |-> FALSE] }

SimpleOndemand == CHOOSE g \in PollingGovernors : g.name = "simple_ondemand"

\* governor_store with a name of the allow-list (lines 974-981).
WriteGovernor ==
    /\ task["admin"] = NoTask
    /\ \E g \in PollingGovernors :
         /\ g.name \in GovernorWhiteList
         /\ Enter("admin", governor_store_steps(g.name))
    /\ UNCHANGED <<devfreq_governor_list, df, mutex, work, polling_ms, notes, seq, heap>>

AddGovernor ==
    /\ task["registrar"] = NoTask
    /\ \E g \in PollingGovernors : Enter("registrar", devfreq_add_governor_steps(g))
    /\ UNCHANGED <<devfreq_governor_list, df, mutex, work, polling_ms, notes, seq, heap>>

RemoveGovernor ==
    /\ task["registrar"] = NoTask
    /\ \E g \in PollingGovernors : Enter("registrar", devfreq_remove_governor_steps(g))
    /\ UNCHANGED <<devfreq_governor_list, df, mutex, work, polling_ms, notes, seq, heap>>

\* The device of the concurrent specifications: registered by
\* devfreq_add_device with a governor that polls, whose START queued the
\* work when the profile's polling_ms is not 0.  The profile has no
\* frequency table and no operating points.
Bare == CHOOSE p \in Profiles : p.freq_table = <<>> /\ p.opp_count = 0

PollInit ==
    /\ jiffies = 0
    /\ devfreq_governor_list = PollingGovernors
    /\ df = devfreq_add_device(PollingGovernors, Bare, SimpleOndemand.name, 0, OK).df
    /\ call = Idle
    /\ pre = df
    /\ ret = OK
    /\ trace = <<>>
    /\ mutex = Unlocked
    /\ polling_ms \in {0, 1}
    /\ work = IF polling_ms # 0 THEN queue_delayed_work(WorkIdle, polling_ms) ELSE WorkIdle
    /\ task = [t \in Threads |-> NoTask]
    /\ notes = <<>>
    /\ heap = Listed

\* The steps of the locks.
LockSteps(t) == mutex_lock_step(t) \/ mutex_unlock_step(t)

\* The steps of update_devfreq.
UpdateSteps(t) == update_check(t) \/ update_ask(t) \/ update_apply(t)

\* The steps of the worker.
WorkSteps(t) == queue_work(t) \/ work_done(t)

\* The steps of starting and stopping the monitor and of an event handler.
MonitorSteps(t) ==
    \/ init_work(t) \/ cancel_grab_step(t) \/ cancel_wait_step(t)
    \/ event_enter(t) \/ event_leave(t) \/ set_governor(t)

\* The steps of devfreq_interval_update.
IntervalSteps(t) == interval_read(t) \/ interval_set(t)

\* The steps of suspending, resuming and of governor_store.
AdminSteps(t) ==
    suspend_status_step(t) \/ resume_status_step(t) \/ governor_find(t)

\* The steps of devfreq_add_governor and devfreq_remove_governor.
RegistrySteps(t) == list_add(t) \/ list_find(t) \/ list_del(t)

\* NotifySpec: polls, notifier calls and min_freq writes interleaved step by
\* step.
NotifyNext ==
    \/ TakeWork \/ CallNotifier \/ WriteMinFreq
    \/ \E t \in Threads : LockSteps(t)
    \/ \E t \in Threads : UpdateSteps(t)
    \/ \E t \in Threads : WorkSteps(t)
    \/ \E t \in Threads : set_min(t)

NotifySpec == PollInit /\ [][NotifyNext]_vars

\* PollSpec: polls interleaved step by step with the handlers that hold
\* event_lock: suspend, resume, a new polling interval, a new governor.
PollNext ==
    \/ TakeWork
    \/ SuspendDevice \/ ResumeDevice \/ WritePollingInterval \/ WriteGovernor
    \/ \E t \in Threads : LockSteps(t)
    \/ \E t \in Threads : UpdateSteps(t)
    \/ \E t \in Threads : WorkSteps(t)
    \/ \E t \in Threads : MonitorSteps(t)
    \/ \E t \in Threads : IntervalSteps(t)
    \/ \E t \in Threads : AdminSteps(t)

PollSpec == PollInit /\ [][PollNext]_vars

\* Any step of thread t inside a handler.
Run(t) ==
    \/ LockSteps(t) \/ UpdateSteps(t) \/ WorkSteps(t)
    \/ MonitorSteps(t) \/ IntervalSteps(t) \/ AdminSteps(t)

\* FairPollSpec: PollSpec under a fair scheduler.  A thread inside a handler
\* goes on, a thread that finds a mutex free again and again gets it, and a
\* work that is queued again and again is run by the worker.
FairPollSpec ==
    /\ PollSpec
    /\ SF_vars(TakeWork)
    /\ \A t \in {"kworker", "admin"} : SF_vars(Run(t))

\* RegistrySpec: polls and notifier calls interleaved step by step with
\* governors being registered and unregistered.
RegistryNext ==
    \/ TakeWork \/ CallNotifier \/ AddGovernor \/ RemoveGovernor
    \/ \E t \in Threads : LockSteps(t)
    \/ \E t \in Threads : UpdateSteps(t)
    \/ \E t \in Threads : WorkSteps(t)
    \/ \E t \in Threads : MonitorSteps(t)
    \/ \E t \in Threads : RegistrySteps(t)

RegistrySpec == PollInit /\ [][RegistryNext]_vars

\* KernelSpec: polling_interval_store interleaved step by step with
\* governors being registered and unregistered.
KernelNext ==
    \/ WritePollingInterval \/ AddGovernor \/ RemoveGovernor
    \/ \E t \in Threads : LockSteps(t)
    \/ \E t \in Threads : queue_work(t)
    \/ \E t \in Threads : MonitorSteps(t)
    \/ \E t \in Threads : IntervalSteps(t)
    \/ \E t \in Threads : RegistrySteps(t)

KernelSpec == PollInit /\ [][KernelNext]_vars

----------------------------------------------------------------------------
(* What the last handler's trace shows. *)

Entries(cb) == SelectSeq(trace, LAMBDA e : e.cb = cb)
Notifications(state) ==
    SelectSeq(trace, LAMBDA e : e.cb = "notify" /\ e.state = state)
GovEvents(event) ==
    SelectSeq(trace, LAMBDA e : e.cb = "event" /\ e.event = event)

\* The update reached the driver: it asked the governor (or was boosted)
\* and called the target callback.
Applied == Entries("target") # <<>>
TargetCall == Entries("target")[1]
\* The target the update started from.
GovernorTarget ==
    IF pre.max_boost THEN ULONG_MAX ELSE Entries("get_target_freq")[1].freq

IsStore == call.op \in {"min_freq_store", "max_freq_store"}

----------------------------------------------------------------------------
(* Claims about the limits (Spec). *)

\* The clamp as the specification words it: the ceiling wins, then the
\* floor, else the target passes through.
ReferenceClamp(t, minFreq, maxFreq) ==
    CASE maxFreq # 0 /\ (t > maxFreq \/ (minFreq # 0 /\ t < minFreq /\ minFreq > maxFreq))
           -> [freq |-> maxFreq, flags |-> {DEVFREQ_FLAG_LEAST_UPPER_BOUND}]
      [] OTHER
           -> IF minFreq # 0 /\ t < minFreq
              THEN [freq |-> minFreq, flags |-> {}]
              ELSE [freq |-> t, flags |-> {}]

\* C1: whenever update_devfreq calls the driver's target callback, the
\* frequency and rounding flags it passes are the reference clamp of the
\* governor's target under the limits then in force.
C1_ClampMatchesReference ==
    Applied =>
        [freq |-> TargetCall.freq, flags |-> TargetCall.flags]
            = ReferenceClamp(GovernorTarget, df.min_freq, df.max_freq)

\* C1 witness: a target below a nonzero min_freq reached the driver raised
\* to min_freq with the least-upper-bound flag clear.
C1_Witness ==
    /\ Applied
    /\ df.min_freq # 0
    /\ GovernorTarget < df.min_freq
    /\ TargetCall.freq = df.min_freq
    /\ TargetCall.flags = {}

\* C2: the limits never cross (min_freq == 0, max_freq == 0 or
\* min_freq <= max_freq), and a write that would cross them is rejected
\* with both limits as they were.
C2_LimitsNeverCross ==
    /\ df.min_freq = 0 \/ df.max_freq = 0 \/ df.min_freq <= df.max_freq
    /\ (/\ call.op = "min_freq_store" /\ call.buf.parsed /\ ~pre.is_boost_device
        /\ call.buf.value # 0 /\ pre.max_freq # 0 /\ call.buf.value > pre.max_freq)
       => (ret = EINVAL /\ df.min_freq = pre.min_freq /\ df.max_freq = pre.max_freq)
    /\ (/\ call.op = "max_freq_store" /\ call.buf.parsed
        /\ call.buf.value # 0 /\ pre.min_freq # 0 /\ call.buf.value < pre.min_freq)
       => (ret = EINVAL /\ df.min_freq = pre.min_freq /\ df.max_freq = pre.max_freq)
    /\ (IsStore /\ ret # COUNT)
       => (df.min_freq = pre.min_freq /\ df.max_freq = pre.max_freq)

\* C2 witness: a min_freq write above a nonzero max_freq was rejected.
C2_Witness ==
    /\ call.op = "min_freq_store"
    /\ call.buf.parsed
    /\ pre.max_freq # 0
    /\ call.buf.value > pre.max_freq
    /\ ret = EINVAL

\* The update a store handler ran, when it ran one.
StoreUpdate == Entries("update_devfreq")
StoreUpdateFailed == IsStore /\ StoreUpdate # <<>> /\ StoreUpdate[1].ret # OK

\* C3 (as claimed): a min_freq or max_freq write whose update fails returns
\* that error and leaves min_freq and max_freq as they were.
C3_StoreErrorReturnedAndUndone ==
    StoreUpdateFailed =>
        /\ ret = StoreUpdate[1].ret
        /\ df.min_freq = pre.min_freq
        /\ df.max_freq = pre.max_freq

----------------------------------------------------------------------------
(* Claims about the governor attribute (GovSpec). *)

IsGovernorStore == call.op = "governor_store"
Registry(name) == {g \in devfreq_governor_list : g.name = name}
GovernorKept == df.governor = pre.governor /\ df.governor_name = pre.governor_name
StopOrStart == Len(GovEvents(DEVFREQ_GOV_STOP)) + Len(GovEvents(DEVFREQ_GOV_START))

\* A write naming the governor the device has.
NamesCurrent == IsGovernorStore /\ pre.governor # NULL /\ call.name = pre.governor.name

\* C4 (as claimed): a write naming the device's current governor succeeds,
\* sends neither STOP nor START and leaves governor and governor_name alone.
C4_SameGovernorIsNoOp ==
    NamesCurrent => (ret = COUNT /\ StopOrStart = 0 /\ GovernorKept)

\* C4 (amended): the same, for a current governor on the allow-list; off
\* the allow-list the write fails with -EINVAL, still without events or
\* change.
C4_SameListedGovernorIsNoOp ==
    NamesCurrent =>
        /\ StopOrStart = 0
        /\ GovernorKept
        /\ ret = IF call.name \in GovernorWhiteList THEN COUNT ELSE EINVAL

\* C4 witness: a write naming the current, allow-listed governor returned
\* success.
C4_Witness ==
    NamesCurrent /\ call.name \in GovernorWhiteList /\ ret = COUNT /\ trace = <<>>

\* C5: a write naming a governor other than the current one fails, sends no
\* event and changes nothing when the current governor is immutable or the
\* named governor is registered and immutable.
C5_ImmutableRejected ==
    (/\ IsGovernorStore
     /\ ~NamesCurrent
     /\ \/ pre.governor # NULL /\ pre.governor.immutable
        \/ \E g \in Registry(call.name) : g.immutable)
    => (ret # COUNT /\ trace = <<>> /\ GovernorKept)

\* C5 witness: a write naming a registered immutable governor, on a device
\* whose own governor is mutable, was refused.
C5_Witness ==
    /\ IsGovernorStore
    /\ pre.governor # NULL
    /\ ~pre.governor.immutable
    /\ \E g \in Registry(call.name) : g.immutable
    /\ ret = EINVAL

\* The switch asked the current governor to stop and it refused.
StopRefused ==
    /\ IsGovernorStore
    /\ GovEvents(DEVFREQ_GOV_STOP) # <<>>
    /\ GovEvents(DEVFREQ_GOV_STOP)[1].ret # OK

StartRefused ==
    /\ IsGovernorStore
    /\ pre.governor # NULL
    /\ \E i \in DOMAIN trace :
           /\ trace[i].cb = "event" /\ trace[i].event = DEVFREQ_GOV_START
           /\ trace[i].gov = call.name /\ trace[i].ret # OK
IncomingStart ==
    SelectSeq(trace, LAMBDA e : e.cb = "event" /\ e.event = DEVFREQ_GOV_START
                                /\ e.gov = call.name)[1]

\* C7: when the incoming governor's START fails on a device that had a
\* governor, that governor and its name are back on return, it was sent
\* START again after the failure, and the write returns the incoming
\* governor's START error whatever the restart returned.
C7_StartFailureRollsBack ==
    StartRefused =>
        /\ GovernorKept
        /\ ret = IncomingStart.ret
        /\ trace[Len(trace)].event = DEVFREQ_GOV_START
        /\ trace[Len(trace)].gov = pre.governor.name
        /\ trace[Len(trace) - 1] = IncomingStart

\* C7 witness: the incoming governor's START failed and the restart of the
\* previous governor returned something else.
C7_Witness ==
    /\ StartRefused
    /\ trace[Len(trace)].ret # IncomingStart.ret
    /\ trace[Len(trace)].ret # OK

\* C8: a write naming a governor that is not registered fails, sends no
\* event and leaves governor and governor_name alone.
C8_UnknownGovernorRejected ==
    (IsGovernorStore /\ Registry(call.name) = {})
    => (ret \in {EINVAL, ENODEV} /\ trace = <<>> /\ GovernorKept)

\* C8 witness: an allow-listed name with no registered governor was looked
\* up and not found.
C8_Witness ==
    /\ IsGovernorStore
    /\ call.name \in GovernorWhiteList
    /\ Registry(call.name) = {}
    /\ pre.governor # NULL
    /\ ret = ENODEV

----------------------------------------------------------------------------
(* Claims about update_devfreq (UpdateSpec). *)

\* What update_devfreq returned to the handler that ran it.
UpdateRet == IF IsStore THEN StoreUpdate[1].ret ELSE ret
PreChange == Notifications(DEVFREQ_PRECHANGE)
PostChange == Notifications(DEVFREQ_POSTCHANGE)
StatsKept ==
    /\ df.previous_freq = pre.previous_freq
    /\ df.time_in_state = pre.time_in_state
    /\ df.trans_table = pre.trans_table
    /\ df.total_trans = pre.total_trans
    /\ df.last_stat_updated = pre.last_stat_updated

\* C9: when the driver's target callback fails, the update ends with one
\* POSTCHANGE notification whose new frequency is the old one it announced
\* before, returns the driver's error, and leaves previous_freq and the
\* statistics (time_in_state, trans_table, total_trans, last_stat_updated)
\* as they were.
C9_FailedTargetRollsBack ==
    (Applied /\ TargetCall.ret # OK) =>
        /\ UpdateRet = TargetCall.ret
        /\ Len(PreChange) = 1
        /\ Len(PostChange) = 1
        /\ PostChange[1].new = PostChange[1].old
        /\ PostChange[1].old = PreChange[1].old
        /\ ~pre.get_cur_freq => PostChange[1].new = pre.previous_freq
        /\ Entries("devfreq_update_status") = <<>>
        /\ StatsKept

\* C9 witness: the driver refused a frequency other than the current one
\* on a device with a table, time having passed since the last statistics
\* update.
C9_Witness ==
    /\ Applied
    /\ TargetCall.ret # OK
    /\ TargetCall.freq # pre.previous_freq
    /\ devfreq_get_freq_level(pre, pre.previous_freq) >= 0
    /\ devfreq_get_freq_level(pre, TargetCall.freq) >= 0
    /\ jiffies > pre.last_stat_updated

\* C10: when the driver's target callback succeeds, the POSTCHANGE
\* notification carries the frequency the driver settled on, previous_freq
\* becomes that frequency, and the update returns success whatever
\* devfreq_update_status returned.
C10_AppliedValueRecorded ==
    (Applied /\ TargetCall.ret = OK) =>
        /\ UpdateRet = OK
        /\ Len(PostChange) = 1
        /\ PostChange[1].new = TargetCall.out
        /\ df.previous_freq = TargetCall.out

\* C10 witness: the driver settled on a frequency other than the one asked
\* for, and the statistics update failed.
C10_Witness ==
    /\ Applied
    /\ TargetCall.ret = OK
    /\ TargetCall.out # TargetCall.freq
    /\ Entries("devfreq_update_status") # <<>>
    /\ Entries("devfreq_update_status")[1].ret = EINVAL
    /\ ret = OK

----------------------------------------------------------------------------
(* Claims about max_boost (BoostSpec). *)

\* The last handler ran update_devfreq on a device with a governor.
UpdateRan ==
    /\ pre.governor # NULL
    /\ \/ call.op = "devfreq_notifier_call"
       \/ IsStore /\ StoreUpdate # <<>>

\* C11 (as claimed): with max_boost set, update_devfreq does not call
\* get_target_freq, and the driver is handed max_freq with the
\* least-upper-bound flag when max_freq != 0 and ULONG_MAX otherwise.
C11_BoostHandsMaxFreqFlagged ==
    (UpdateRan /\ df.max_boost) =>
        /\ Entries("get_target_freq") = <<>>
        /\ Applied
        /\ [freq |-> TargetCall.freq, flags |-> TargetCall.flags]
             = IF df.max_freq # 0
               THEN [freq |-> df.max_freq, flags |-> {DEVFREQ_FLAG_LEAST_UPPER_BOUND}]
               ELSE [freq |-> ULONG_MAX, flags |-> {}]

\* C11 (amended): the same, the flag being set when max_freq is neither 0
\* nor ULONG_MAX; with max_freq == ULONG_MAX the driver is handed ULONG_MAX
\* with the flag clear.
C11_BoostHandsMaxFreq ==
    (UpdateRan /\ df.max_boost) =>
        /\ Entries("get_target_freq") = <<>>
        /\ Applied
        /\ [freq |-> TargetCall.freq, flags |-> TargetCall.flags]
             = IF df.max_freq \notin {0, ULONG_MAX}
               THEN [freq |-> df.max_freq, flags |-> {DEVFREQ_FLAG_LEAST_UPPER_BOUND}]
               ELSE [freq |-> ULONG_MAX, flags |-> {}]

\* C11 witness: a boosted update under a nonzero max_freq and a nonzero
\* min_freq handed the driver max_freq with the flag set.
C11_Witness ==
    /\ UpdateRan
    /\ df.max_boost
    /\ df.min_freq # 0
    /\ df.max_freq \notin {0, ULONG_MAX}
    /\ TargetCall.freq = df.max_freq
    /\ TargetCall.flags = {DEVFREQ_FLAG_LEAST_UPPER_BOUND}

----------------------------------------------------------------------------
(* Claims about the statistics (StatSpec, AwakeSpec, SuspendSpec). *)

\* f[0] + ... + f[n - 1].
RECURSIVE SumTo(_, _)
SumTo(f, n) == IF n <= 0 THEN 0 ELSE f[n - 1] + SumTo(f, n - 1)

SumTime(d) == SumTo(d.time_in_state, d.max_state)
SumTrans(d) == SumTo(d.trans_table, d.max_state * d.max_state)

\* The last handler called devfreq_update_status.
StatusRan == Entries("devfreq_update_status") # <<>>
\* devfreq_update_status finds d's previous_freq in the table.
Known(d) == d.previous_freq # 0 /\ devfreq_get_freq_level(d, d.previous_freq) >= 0

\* C13: the entries of trans_table add up to total_trans, and no entry
\* from a level to itself is ever incremented, whatever frequencies the
\* calls of devfreq_update_status were given.
C13_TransitionsAddUp ==
    /\ SumTrans(df) = df.total_trans
    /\ \A lev \in 0..(df.max_state - 1) : df.trans_table[lev * df.max_state + lev] = 0

\* C13 witness: transitions were counted, and the last call was given a
\* frequency the table does not hold.
C13_Witness ==
    /\ df.total_trans > 0
    /\ StatusRan
    /\ Entries("devfreq_update_status")[1].ret = EINVAL
    /\ Known(pre)

C15_SuspendedTimeNotCounted ==
    /\ (pre.stop_polling /\ call.op \notin {"idle", "devfreq_monitor_resume"})
           => df.time_in_state = pre.time_in_state
    /\ \A lev \in 0..(df.max_state - 1) :
           df.time_in_state[lev] >= pre.time_in_state[lev]

----------------------------------------------------------------------------
(* C12: transition notifications under interleaved updates. *)

\* A notification was delivered by this step.
Delivered == notes' # notes

\* C12: under any interleaving of polls, notifier calls and min_freq writes
\* the notifications alternate strictly: a PRECHANGE comes first or after a
\* POSTCHANGE, a POSTCHANGE comes after the PRECHANGE of the same update and
\* repeats its old frequency; and an update whose governor fails to name a
\* target delivers no notification.
C12_NotificationsAlternate ==
    [][/\ Delivered =>
            IF notes'[1].state = DEVFREQ_PRECHANGE
            THEN notes = <<>> \/ notes[1].state = DEVFREQ_POSTCHANGE
            ELSE /\ notes # <<>>
                 /\ notes[1].state = DEVFREQ_PRECHANGE
                 /\ notes[1].by = notes'[1].by
                 /\ notes[1].old = notes'[1].old
       /\ \A t \in Threads :
            At(t, "ask") /\ task'[t].err # OK => ~Delivered]_vars

\* C12 witness: the notifier's update has delivered its PRECHANGE and not yet
\* its POSTCHANGE, while a poll waits for the lock.
C12_Witness ==
    /\ notes # <<>>
    /\ notes[1].state = DEVFREQ_PRECHANGE
    /\ notes[1].by = "notifier"
    /\ At("notifier", "apply")
    /\ At("kworker", "lock")

----------------------------------------------------------------------------
(* C16: governor events and the event lock. *)

InEvent(t) == task[t].event # "none"

\* C16: every invocation of a governor's event handler happens while the
\* invoking thread holds the device's event_lock.
C16_EventsUnderEventLock ==
    \A t \in Threads : InEvent(t) => mutex["event_lock"] = t

----------------------------------------------------------------------------
(* C17: the device lock. *)

\* Thread t is about to write previous_freq, a limit, the statistics or the
\* governor pointer.
AboutToWrite(t) ==
    \/ At(t, "apply") \/ At(t, "set_min")
    \/ At(t, "suspend_status") \/ At(t, "resume_status")
    \/ At(t, "set_governor")

\* The governor update_devfreq found at line 265 is the one it calls at 273.
GovernorStable(t) == At(t, "ask") => df.governor = task[t].gov

\* C17: previous_freq, the limits, the governor pointer and the statistics
\* are written only by a thread holding the device lock, so that an update
\* in progress never sees the governor pointer change between its check and
\* its get_target_freq call.
C17_StateWrittenUnderLock ==
    \A t \in Threads :
        /\ AboutToWrite(t) => mutex["lock"] = t
        /\ GovernorStable(t)

\* The second half of C17 alone.
C17_GovernorStableInUpdate == \A t \in Threads : GovernorStable(t)

----------------------------------------------------------------------------
(* C18, C19: the poll task. *)

\* C18: once devfreq_monitor_stop has returned no poll is pending or
\* executing, and none is until polling is started again, also when a poll
\* in flight tried to re-arm itself.
C18_StopLeavesNoPoll ==
    work.stopped =>
        /\ work.armed = 0
        /\ work.running = 0
        /\ work.pending => work.canceling

\* C19: at most one poll is pending and at most one is executing, whatever
\* the interleaving of starting, resuming, interval changes and re-arming.
C19_OnePollTask == work.armed <= 1 /\ work.running <= 1

----------------------------------------------------------------------------
(* C20: polling goes on. *)

\* Polling is on: the interval is not 0, the device is not suspended and
\* the monitor has not been stopped.
Polling == polling_ms # 0 /\ ~df.stop_polling /\ ~work.stopped

\* devfreq_monitor has passed its re-arming (line 340).
Rearmed == At("kworker", "unlock")

----------------------------------------------------------------------------
(* C21: a suspended device does not poll. *)

\* Thread t has a step of this kind ahead in the handler it is in.
Ahead(t, o) == \E i \in 1..Len(task[t].todo) : task[t].todo[i].op = o

\* devfreq_monitor_suspend has set stop_polling and has not returned: its
\* cancel is still ahead.
Suspending ==
    \E t \in Threads : task[t].event = "SUSPEND" /\ Ahead(t, "cancel_wait")

\* C21: from the return of devfreq_monitor_suspend to the next
\* devfreq_monitor_resume no poll is pending or executing, whatever polls,
\* interval writes, governor switches and further suspends interleave.
C21_SuspendedDeviceDoesNotPoll ==
    df.stop_polling /\ ~Suspending => work.armed = 0 /\ work.running = 0

----------------------------------------------------------------------------
(* C22: what suspend and resume leave alone. *)

\* ResumeSpec: suspend and resume of a registered device, polling or not,
\* as time passes and notifier calls update it.
ResumeInit ==
    /\ jiffies = 0
    /\ devfreq_governor_list = {Performance}
    /\ \E profile \in Profiles :
           df = devfreq_add_device({Performance}, profile, Performance.name, 0, OK).df
    /\ call = Idle
    /\ pre = df
    /\ ret = OK
    /\ trace = <<>>
    /\ mutex = Unlocked
    /\ polling_ms \in {0, 1}
    /\ work = IF polling_ms # 0 THEN queue_delayed_work(WorkIdle, polling_ms) ELSE WorkIdle
    /\ task = [t \in Threads |-> NoTask]
    /\ notes = <<>>
    /\ heap = Listed

ResumeNext ==
    Tick \/ DoNotifierCall \/ DoMonitorSuspend \/ DoMonitorResume \/ Return

ResumeSpec == ResumeInit /\ [][ResumeNext]_vars

\* The handler op is invoked by this step.
Invoked(op) == call = Idle /\ call'.op = op

\* What get_cur_freq answered the handler that ran last.
Reported == Entries("get_cur_freq")

\* C22: devfreq_monitor_suspend leaves previous_freq as it was, and
\* devfreq_monitor_resume of a suspended device leaves it as it was unless
\* get_cur_freq succeeds, and then sets it to the frequency reported; so a
\* suspend followed by a resume with no update in between changes
\* previous_freq only to what get_cur_freq reported.  A resume of a device
\* that is not suspended changes nothing: no poll armed, no timestamp reset,
\* previous_freq untouched.
C22_SuspendResumeKeepFrequency ==
    [][/\ Invoked("devfreq_monitor_suspend") =>
            df'.previous_freq = df.previous_freq
       /\ (Invoked("devfreq_monitor_resume") /\ df.stop_polling) =>
            df'.previous_freq =
                IF Reported' # <<>> /\ Reported'[1].ret = OK
                THEN Reported'[1].freq ELSE df.previous_freq
       /\ (Invoked("devfreq_monitor_resume") /\ ~df.stop_polling) =>
            df' = df /\ work' = work /\ Reported' = <<>>]_vars

\* A resume that took the frequency get_cur_freq reported, and a resume of
\* a device that was not suspended, with time passed since the last stamp.
C22_Witness ==
    /\ call.op = "devfreq_monitor_resume"
    /\ \/ pre.stop_polling /\ Reported # <<>> /\ df.previous_freq # pre.previous_freq
       \/ /\ ~pre.stop_polling /\ jiffies > df.last_stat_updated
          /\ polling_ms # 0 /\ work.pending

----------------------------------------------------------------------------
(* C23: polling turned off and on again by the interval. *)

\* IntervalSpec: polls interleaved step by step with writes of the polling
\* interval, on a device that polls at first and is never suspended.
IntervalInit == PollInit /\ polling_ms # 0

IntervalNext ==
    \/ TakeWork \/ WritePollingInterval
    \/ \E t \in Threads : LockSteps(t)
    \/ \E t \in Threads : UpdateSteps(t)
    \/ \E t \in Threads : WorkSteps(t)
    \/ \E t \in Threads : cancel_grab_step(t) \/ cancel_wait_step(t)
    \/ \E t \in Threads : event_enter(t) \/ event_leave(t)
    \/ \E t \in Threads : IntervalSteps(t)

IntervalSpec == IntervalInit /\ [][IntervalNext]_vars

\* No instance of the work is queued, on a timer or running.
NoPoll == work.armed = 0 /\ work.running = 0 /\ ~work.pending

\* Thread t is about to return from devfreq_interval_update(0).
IntervalZeroReturns(t) ==
    task[t].event = "INTERVAL" /\ At(t, "leave") /\ polling_ms = 0

\* Thread t is about to queue the work for the interval written after 0.
IntervalRestarts(t) ==
    task[t].event = "INTERVAL" /\ At(t, "queue") /\ Cur(t).s = "interval"

\* C23: on a device that is not suspended and polls, setInterval(0) returns
\* only when the pending or running poll is cancelled: no poll is pending
\* and the interval stored is 0.  The setInterval(n), n > 0, that follows
\* arms exactly one poll, due n ms after that call: nothing was left
\* pending from the earlier schedule.
C23_IntervalZeroThenRestart ==
    [][\A t \in Threads :
         /\ IntervalZeroReturns(t) => NoPoll
         /\ (IntervalRestarts(t) /\ task'[t] # task[t]) =>
              /\ NoPoll
              /\ Cur(t).n > 0
              /\ work'.armed = 1 /\ work'.pending /\ work'.running = 0
              /\ work'.delay = Cur(t).n]_vars

\* The device polled every 1 ms, setInterval(0) has turned polling off and
\* setInterval(MaxInterval) has armed its poll (a longer interval written
\* over a nonzero one queues nothing, lines 469-477).
C23_Witness ==
    /\ task["admin"].event = "INTERVAL" /\ At("admin", "unlock")
    /\ polling_ms = MaxInterval /\ work.delay = MaxInterval /\ work.armed = 1

----------------------------------------------------------------------------
(* C24: teardown of a device. *)

\* devfreq_remove_device, called once by the device's driver.
RemoveDevice ==
    /\ task["admin"] = NoTask
    /\ OnList("df")
    /\ Enter("admin", devfreq_remove_device_steps)
    /\ UNCHANGED <<devfreq_governor_list, df, mutex, work, polling_ms, notes, seq, heap>>

\* The steps of device_unregister and _remove_devfreq.
RemoveSteps(t) == device_del(t) \/ node_del(t) \/ remove_stop(t) \/ teardown(t)

\* TeardownSpec: KernelSpec with the device removed at some point by the
\* thread that wrote its attributes.
TeardownNext ==
    \/ (OnList("df") /\ WritePollingInterval) \/ AddGovernor \/ RemoveGovernor
    \/ RemoveDevice
    \/ \E t \in Threads : LockSteps(t)
    \/ \E t \in Threads : queue_work(t)
    \/ \E t \in Threads : MonitorSteps(t)
    \/ \E t \in Threads : IntervalSteps(t)
    \/ \E t \in Threads : RegistrySteps(t)
    \/ \E t \in Threads : RemoveSteps(t)

TeardownSpec == PollInit /\ [][TeardownNext]_vars

\* RemoveSpec: PollSpec with the device removed at some point; here every
\* START and STOP but teardown's is delivered under event_lock.
RemoveNext ==
    \/ TakeWork
    \/ (OnList("df") /\ (SuspendDevice \/ ResumeDevice))
    \/ (OnList("df") /\ (WritePollingInterval \/ WriteGovernor))
    \/ RemoveDevice
    \/ \E t \in Threads : LockSteps(t)
    \/ \E t \in Threads : UpdateSteps(t)
    \/ \E t \in Threads : WorkSteps(t)
    \/ \E t \in Threads : MonitorSteps(t)
    \/ \E t \in Threads : IntervalSteps(t)
    \/ \E t \in Threads : AdminSteps(t)
    \/ \E t \in Threads : RemoveSteps(t)

RemoveSpec == PollInit /\ [][RemoveNext]_vars

\* Where teardown did this to the device, in heap.log; 0 when it has not.
Did(what) ==
    IF \E i \in DOMAIN heap.log : heap.log[i] = Done(what, "df")
    THEN CHOOSE i \in DOMAIN heap.log : heap.log[i] = Done(what, "df")
    ELSE 0

\* C24: teardown sends STOP to the device's governor before it calls the
\* driver's exit hook and before it destroys the locks and frees the
\* memory, and the device is never freed while a poll is pending or
\* executing.
C24_StoppedBeforeFreed ==
    /\ (Did("exit") > 0 /\ Did(DEVFREQ_GOV_STOP) > 0) =>
           Did(DEVFREQ_GOV_STOP) < Did("exit")
    /\ Did("mutex_destroy") > 0 => Did("exit") > 0
    /\ Did("kfree") > 0 =>
           /\ Did("mutex_destroy") > 0
           /\ work.armed = 0 /\ work.running = 0

----------------------------------------------------------------------------
(* C25: the device's governor and the registry. *)

\* The events of this kind the last handler sent to the governor named.
EventsTo(event, name) ==
    SelectSeq(trace, LAMBDA e : e.cb = "event" /\ e.event = event /\ e.gov = name)

\* C25: after devfreq_remove_governor(g) has succeeded the device's
\* governor is not g, and a device that had g attached was sent STOP once,
\* whatever STOP answered; after devfreq_add_governor(g) has succeeded a
\* device whose governor_name is g's name has g for governor and was sent
\* START; and at all times the governor of the device is a registered one.
C25_GovernorIsRegistered ==
    /\ (call.op = "devfreq_remove_governor" /\ ret = OK) =>
           /\ df.governor = NULL \/ df.governor.name # call.name
           /\ (pre.governor # NULL /\ pre.governor.name = call.name) =>
                  Len(EventsTo(DEVFREQ_GOV_STOP, call.name)) = 1
    /\ (call.op = "devfreq_add_governor" /\ ret = OK /\ df.governor_name = call.name) =>
           /\ df.governor # NULL /\ df.governor.name = call.name
           /\ Len(EventsTo(DEVFREQ_GOV_START, call.name)) = 1
    /\ df.governor # NULL => df.governor \in devfreq_governor_list

\* The governor attached to the device was unregistered and its STOP
\* failed.
C25_Witness ==
    /\ call.op = "devfreq_remove_governor" /\ ret = OK
    /\ pre.governor # NULL /\ pre.governor.name = call.name
    /\ EventsTo(DEVFREQ_GOV_STOP, call.name)[1].ret # OK
    /\ df.governor = NULL

\* The same of the registry at every step of the handlers.
GovernorRegistered == df.governor # NULL => df.governor \in devfreq_governor_list

----------------------------------------------------------------------------
(* C26: a device registered without a frequency table. *)

\* C26 (as claimed): a device registered with no table of its own, for
\* which the operating points gave none either (no points, or a lookup
\* failing part-way), has an empty table and min_freq and max_freq both 0,
\* and its updates hand the governor's target to the driver as it is.
C26_NoTableNoLimits ==
    df.max_state = 0 =>
        /\ df.min_freq = 0 /\ df.max_freq = 0
        /\ Applied => TargetCall.freq = GovernorTarget /\ TargetCall.flags = {}

----------------------------------------------------------------------------
(* C27: devfreq_update_status given a frequency the table does not hold. *)

\* The frequency the last handler gave devfreq_update_status: what the
\* driver settled on in an update, previous_freq otherwise.
NewFreq == IF Applied THEN TargetCall.out ELSE pre.previous_freq

InTable(d, freq) == devfreq_get_freq_level(d, freq) >= 0

\* devfreq_update_status ran with a previous or a new frequency that the
\* table does not hold.
OffTable == StatusRan /\ (~InTable(pre, pre.previous_freq) \/ ~InTable(pre, NewFreq))

\* What such a call leaves alone: the transition counts, and every
\* time_in_state entry but that of previous_freq's level, which gets the
\* time since the last stamp; it stamps last_stat_updated.
OffTableEffect ==
    /\ df.trans_table = pre.trans_table
    /\ df.total_trans = pre.total_trans
    /\ \A lev \in 0..(df.max_state - 1) :
           df.time_in_state[lev] =
               IF Known(pre) /\ lev = devfreq_get_freq_level(pre, pre.previous_freq)
               THEN pre.time_in_state[lev] + (jiffies - pre.last_stat_updated)
               ELSE pre.time_in_state[lev]
    /\ df.last_stat_updated = jiffies

\* C27 (as claimed): a call of devfreq_update_status whose previous or new
\* frequency is not in the table returns an error, counts no transition,
\* adds the elapsed time to at most the entry of previous_freq's level (to
\* none when previous_freq is 0 or not in the table) and stamps
\* last_stat_updated; so time_in_state only ever gets time spent at a
\* frequency of the table.
C27_OffTableFailsCleanly ==
    OffTable =>
        /\ Entries("devfreq_update_status")[1].ret # OK
        /\ OffTableEffect

\* C27 (amended): the same, the call returning 0 when previous_freq is 0
\* and an error otherwise.
C27_OffTableHandledCleanly ==
    OffTable =>
        /\ Entries("devfreq_update_status")[1].ret
               = IF pre.previous_freq = 0 THEN OK ELSE EINVAL
        /\ OffTableEffect

\* The device sat at a frequency of the table for a while and the driver
\* settled on one that the table does not hold.
C27_Witness ==
    /\ OffTable
    /\ Known(pre)
    /\ ~InTable(pre, NewFreq)
    /\ jiffies > pre.last_stat_updated
    /\ SumTime(df) > SumTime(pre)

----------------------------------------------------------------------------
(* C28: locks and the synchronous cancel. *)

\* A write of 0 to min_freq, which lifts the bound, by the thread that
\* calls the other administrative handlers.
LiftMinFreq ==
    /\ task["admin"] = NoTask
    /\ Enter("admin", min_freq_store_steps(0))
    /\ UNCHANGED <<devfreq_governor_list, df, mutex, work, polling_ms, notes, seq, heap>>

\* LockSpec: PollSpec with writes to min_freq.
LockNext ==
    \/ PollNext
    \/ LiftMinFreq
    \/ \E t \in Threads : set_min(t)

LockSpec == PollInit /\ [][LockNext]_vars

\* The order of the locks: devfreq_list_lock, then the device's event_lock,
\* then the device's lock.
LockRank(l) ==
    CASE l = "devfreq_list_lock" -> 1
      [] l = "event_lock" -> 2
      [] l = "lock" -> 3

\* Thread t is in cancel_delayed_work_sync.
Cancelling(t) == At(t, "cancel_grab") \/ At(t, "cancel_wait")

\* Some step of thread t inside its handler can be taken.
CanMove(t) == ENABLED (Run(t) \/ set_min(t))

\* C28: nobody calls cancel_delayed_work_sync holding the device lock; a
\* thread that takes a lock holds none that comes later in the order
\* devfreq_list_lock, event_lock, lock; and polls, suspend, resume,
\* interval writes, governor switches (with their STOP) and min_freq writes
\* never all wait for one another: while a thread is inside a handler some
\* thread inside a handler can take a step.
C28_NoDeadlock ==
    /\ \A t \in Threads : Cancelling(t) => mutex["lock"] # t
    /\ \A t \in Threads : At(t, "lock") =>
           \A l \in Locks : mutex[l] = t => LockRank(l) < LockRank(Cur(t).s)
    /\ (\E t \in Threads : task[t].todo # <<>>) =>
           \E t \in Threads : task[t].todo # <<>> /\ CanMove(t)

\* A cancel waits for the poll in flight, which holds the device lock, and
\* a write to min_freq has taken both locks before.
C28_Witness ==
    /\ At("admin", "cancel_wait") /\ mutex["event_lock"] = "admin"
    /\ work.running = 1 /\ mutex["lock"] = "kworker"
    /\ notes # <<>> /\ notes[1].by = "admin"

----------------------------------------------------------------------------
(* C29, C30: devfreq_add_device step by step. *)

\* The threads that call devfreq_add_device, both for the parent device of
\* "df"; the struct devfreq a thread allocates is named after the thread.
Callers == {"admin", "registrar"}

\* devfreq_add_device, lines 645-651: err_init, device_unregister (whose
\* release of the last reference is _remove_devfreq) and err_dev.
err_init_steps(dev) ==
    <<OpS("node_del", dev), mutex_unlock("devfreq_list_lock")>>
    \o device_unregister_steps(dev) \o <<OpS("kfree", dev)>>

\* devfreq_add_device, lines 563-638.
devfreq_add_device_steps(dev) ==
    <<mutex_lock("devfreq_list_lock"), OpS("find_device", dev),
      mutex_unlock("devfreq_list_lock"), OpS("kzalloc", dev),
      OpS("device_register", dev), mutex_lock("devfreq_list_lock"),
      OpS("node_add", dev), OpS("governor_start", dev)>>

\* Thread t leaves its handler with this error.
Fail(t, err) == task' = [task EXCEPT ![t] = [NoTask EXCEPT !.err = err]]

\* Line 564, the list lock held: find_device_devfreq.  Every struct on the
\* list has the parent the callers register for.
find_device(t) ==
    /\ At(t, "find_device")
    /\ Step(t, <<>>, [task[t] EXCEPT
                        !.err = IF heap.devfreq_list # <<>> THEN EINVAL ELSE OK])
    /\ UNCHANGED <<devfreq_governor_list, df, mutex, work, polling_ms, notes, seq, heap>>

\* Lines 566-579, the list lock released: the parent has a struct devfreq
\* (-EINVAL), or kzalloc, which may fail.
kzalloc(t) ==
    /\ At(t, "kzalloc")
    /\ IF task[t].err # OK THEN Fail(t, task[t].err)
       ELSE \E got \in BOOLEAN :
              IF got THEN Step(t, <<>>, task[t]) ELSE Fail(t, ENOMEM)
    /\ UNCHANGED <<devfreq_governor_list, df, mutex, work, polling_ms, notes, seq, heap>>

\* Lines 600-605: device_register under the parent's name, which the driver
\* core refuses while a device of that name is registered with the parent,
\* and which may fail for want of memory; then err_dev.
device_register(t) ==
    /\ At(t, "device_register")
    /\ \E err \in IF heap.names # {} THEN {EEXIST} ELSE {OK, ENOMEM} :
         IF err = OK
         THEN /\ heap' = [heap EXCEPT !.names = @ \cup {Cur(t).s}]
              /\ Step(t, <<>>, task[t])
         ELSE /\ task' = [task EXCEPT ![t] =
                            [@ EXCEPT !.todo = <<OpS("kfree", Cur(t).s)>>, !.err = err]]
              /\ UNCHANGED heap
    /\ UNCHANGED <<devfreq_governor_list, df, mutex, work, polling_ms, notes, seq>>

\* Line 622, the list lock held: list_add.
node_add(t) ==
    /\ At(t, "node_add")
    /\ heap' = [heap EXCEPT !.devfreq_list = <<Cur(t).s>> \o @]
    /\ Step(t, <<>>, task[t])
    /\ UNCHANGED <<devfreq_governor_list, df, mutex, work, polling_ms, notes, seq>>

\* Lines 624-640, the list lock held: the governor named is not in the
\* registry (the pointer stays NULL), or it is, the pointer is set and
\* START is sent, which may fail.
governor_start(t) ==
    /\ At(t, "governor_start")
    /\ \E governor \in devfreq_governor_list \cup {NULL}, start \in {OK, EINVAL} :
         IF governor = NULL
         THEN start = OK
              /\ Step(t, err_init_steps(Cur(t).s), [task[t] EXCEPT !.err = ENODEV])
         ELSE Step(t, IF start = OK THEN <<mutex_unlock("devfreq_list_lock")>>
                      ELSE err_init_steps(Cur(t).s),
                   [task[t] EXCEPT !.gov = governor, !.err = start])
    /\ UNCHANGED <<devfreq_governor_list, df, mutex, work, polling_ms, notes, seq, heap>>

\* The steps of devfreq_add_device.
AddSteps(t) ==
    \/ find_device(t) \/ kzalloc(t) \/ device_register(t)
    \/ node_add(t) \/ governor_start(t)

\* How often this was done to the struct devfreq named dev.
Count(what, dev) == Len(SelectSeq(heap.log, LAMBDA e : e = Done(what, dev)))

\* A caller registers a device for the parent, once.
RegisterDevice ==
    \E t \in Callers :
        /\ task[t] = NoTask
        /\ ~OnList(t)
        /\ \A i \in DOMAIN heap.log : heap.log[i].dev # t
        /\ Enter(t, devfreq_add_device_steps(t))
        /\ UNCHANGED <<devfreq_governor_list, df, mutex, work, polling_ms, notes, seq, heap>>

\* devfreq_remove_device on a device a caller has registered.
UnregisterDevice ==
    \E t \in Callers :
        /\ task[t] = NoTask
        /\ OnList(t)
        /\ Enter(t, device_unregister_steps(t))
        /\ UNCHANGED <<devfreq_governor_list, df, mutex, work, polling_ms, notes, seq, heap>>

\* The parent has its device on the list already, or has none yet.
AddInit ==
    /\ jiffies = 0
    /\ devfreq_governor_list = PollingGovernors
    /\ df = devfreq_add_device(PollingGovernors, Bare, SimpleOndemand.name, 0, OK).df
    /\ call = Idle
    /\ pre = df
    /\ ret = OK
    /\ trace = <<>>
    /\ mutex = Unlocked
    /\ polling_ms = 0
    /\ work = WorkIdle
    /\ task = [t \in Threads |-> NoTask]
    /\ notes = <<>>
    /\ heap \in {Listed, [Listed EXCEPT !.devfreq_list = <<>>, !.names = {}]}

AddNext ==
    \/ RegisterDevice \/ UnregisterDevice
    \/ \E t \in Threads : LockSteps(t)
    \/ \E t \in Threads : AddSteps(t)
    \/ \E t \in Threads : RemoveSteps(t)

AddSpec == AddInit /\ [][AddNext]_vars

\* C29: at every moment devfreq_list holds at most one struct devfreq per
\* parent, callers racing to register one parent included.
C29_OneDevicePerParent == Len(heap.devfreq_list) <= 1

\* devfreq_add_device has failed for the struct named dev after list_add.
Unwound(dev) == Count("list_del", dev) > 0

\* C30: when devfreq_add_device fails after list_add (the governor is not
\* in the registry, or its START fails), the struct is unlinked from the
\* list once and freed once, and no governor event is sent to it after the
\* failure.
C30_FailedAddUndoneOnce ==
    \A dev \in Callers :
        /\ Count("list_del", dev) <= 1
        /\ Count("kfree", dev) <= 1
        /\ Count(DEVFREQ_GOV_STOP, dev) = 0
        /\ (Unwound(dev) /\ task[dev].todo = <<>>) => Count("kfree", dev) = 1

----------------------------------------------------------------------------
(* C31: the governor attached is a governor started. *)

\* The events the last handler sent to the governor now attached.
AttachedEvents ==
    SelectSeq(trace, LAMBDA e : e.cb = "event" /\ e.gov = df.governor.name)

\* C31: when a handler has returned, the governor the device's pointer
\* names is started: the last event the handler sent it, if it sent any,
\* is a START that succeeded.  A governor whose START failed, in
\* devfreq_add_governor or in a switch on a device without a governor, is
\* not left attached.
C31_AttachedGovernorStarted ==
    (df.governor # NULL /\ AttachedEvents # <<>>) =>
        /\ AttachedEvents[Len(AttachedEvents)].event = DEVFREQ_GOV_START
        /\ AttachedEvents[Len(AttachedEvents)].ret = OK

====
